---- MODULE Spec2Model ----
(***************************************************************************)
(* Model of the AgentUse Runner VS Code extension (extension.ts):          *)
(*   - the agentuse.run / agentuse.closeTerminal commands and the          *)
(*     AgentUsePseudoterminal that wraps the `agentuse run <file>`         *)
(*     subprocess (specification Spec),                                    *)
(*   - the workspace scan of the completion provider (SpecScan),           *)
(*   - provideCompletionItems of the completion provider (SpecCompl).      *)
(*   - completion requests for a subagent path over a workspace (SpecSub), *)
(*   - the three block tests of the completion provider (SpecBlock),       *)
(*   - provideHover of the hover provider and the lookup tables that both  *)
(*     providers read (SpecHover),                                         *)
(*   - activate() and the inline completion provider (SpecInline),         *)
(*   - main() of the schema generator sync-cli.ts (SpecSync).              *)
(* Text is modelled as a sequence of one-character strings; fixed literal  *)
(* fragments of the source are kept as one element.                        *)
(***************************************************************************)
EXTENDS Integers, Sequences, FiniteSets, TLC

\* ------------------------------------------------------------------------
\* Bounds of the model
\* ------------------------------------------------------------------------
\* number of steps (commands, host callbacks, process events) of a behaviour
MaxSteps == 9

\* ------------------------------------------------------------------------
\* Text helpers (JavaScript string operations used by the source)
\* ------------------------------------------------------------------------
LF == "\n"
CR == "\r"
\* the character '\x03' (ASCII 3, sent by the terminal for Ctrl+C)
ETX == "\\x03"

\* s.endsWith(suf)
EndsWith(s, suf) ==
    /\ Len(s) >= Len(suf)
    /\ SubSeq(s, Len(s) - Len(suf) + 1, Len(s)) = suf

\* s.startsWith(pre)
StartsWith(s, pre) ==
    /\ Len(s) >= Len(pre)
    /\ SubSeq(s, 1, Len(pre)) = pre

\* s.split('/').pop(): the text after the last '/'
RECURSIVE LastSegment(_)
LastSegment(s) ==
    IF s = <<>> THEN <<>>
    ELSE IF s[Len(s)] = "/" THEN <<>>
    ELSE LastSegment(SubSeq(s, 1, Len(s) - 1)) \o <<s[Len(s)]>>

\* s.replace(/\n/g, '\r\n')
RECURSIVE ReplaceLF(_)
ReplaceLF(s) ==
    IF s = <<>> THEN <<>>
    ELSE (IF Head(s) = LF THEN <<CR, LF>> ELSE <<Head(s)>>) \o ReplaceLF(Tail(s))

\* c.repeat(n)
Repeat(c, n) == [i \in 1..n |-> c]

\* decimal digits of a natural number, as template literals print them
RECURSIVE NatToString(_)
NatToString(n) ==
    LET d == <<"0", "1", "2", "3", "4", "5", "6", "7", "8", "9">>
    IN  IF n < 10 THEN <<d[n + 1]>>
        ELSE NatToString(n \div 10) \o <<d[(n % 10) + 1]>>

\* JavaScript values that are a number or null
JsNull == [null |-> TRUE]
JsNum(n) == [null |-> FALSE, n |-> n]

\* `${code}` for a number or null
CodeToString(code) ==
    IF code.null THEN <<"n", "u", "l", "l">>
    ELSE IF code.n < 0 THEN <<"-">> \o NatToString(0 - code.n)
    ELSE NatToString(code.n)

\* ------------------------------------------------------------------------
\* Completion data: the inline tables and the tables of a regenerated schema
\* ------------------------------------------------------------------------
MODELS ==
    << [label |-> <<"a", "n", "t", "h", "r", "o", "p", "i", "c", ":", "c", "l", "a", "u", "d", "e", "-", "o", "p", "u", "s", "-", "4", "-", "1">>, detail |-> "Most capable Claude model"],
       [label |-> <<"a", "n", "t", "h", "r", "o", "p", "i", "c", ":", "c", "l", "a", "u", "d", "e", "-", "s", "o", "n", "n", "e", "t", "-", "4", "-", "0">>, detail |-> "Balanced performance and speed"],
       [label |-> <<"a", "n", "t", "h", "r", "o", "p", "i", "c", ":", "c", "l", "a", "u", "d", "e", "-", "3", "-", "5", "-", "h", "a", "i", "k", "u", "-", "l", "a", "t", "e", "s", "t">>, detail |-> "Fast and cost-effective"],
       [label |-> <<"o", "p", "e", "n", "a", "i", ":", "g", "p", "t", "-", "5">>, detail |-> "Most capable OpenAI model"],
       [label |-> <<"o", "p", "e", "n", "a", "i", ":", "g", "p", "t", "-", "5", "-", "m", "i", "n", "i">>, detail |-> "Balanced OpenAI model"],
       [label |-> <<"o", "p", "e", "n", "a", "i", ":", "g", "p", "t", "-", "5", "-", "n", "a", "n", "o">>, detail |-> "Fast and lightweight OpenAI model"],
       [label |-> <<"o", "p", "e", "n", "a", "i", ":", "g", "p", "t", "-", "4", ".", "1">>, detail |-> "GPT-4.1 model"],
       [label |-> <<"o", "p", "e", "n", "a", "i", ":", "g", "p", "t", "-", "4", ".", "1", "-", "m", "i", "n", "i">>, detail |-> "Fast GPT-4.1 model"],
       [label |-> <<"o", "p", "e", "n", "a", "i", ":", "o", "4", "-", "m", "i", "n", "i">>, detail |-> "Reasoning model"] >>

\* labels and names are kept as text: the providers compare them with words of
\* the document
FRONTMATTER_FIELDS ==
    << [label |-> <<"m", "o", "d", "e", "l">>, detail |-> "LLM provider and model",
        insertText |-> "model: "],
       [label |-> <<"t", "i", "m", "e", "o", "u", "t">>, detail |-> "Execution timeout in milliseconds",
        insertText |-> "timeout: "],
       [label |-> <<"m", "a", "x", "S", "t", "e", "p", "s">>, detail |-> "Maximum reasoning steps",
        insertText |-> "maxSteps: "],
       [label |-> <<"t", "o", "o", "l", "s">>, detail |-> "Custom tool references",
        insertText |-> "tools:\n  - "],
       [label |-> <<"m", "c", "p", "_", "s", "e", "r", "v", "e", "r", "s">>, detail |-> "MCP server configurations",
        insertText |-> "mcp_servers:\n  "],
       [label |-> <<"s", "u", "b", "a", "g", "e", "n", "t", "s">>, detail |-> "Sub-agent definitions",
        insertText |-> "subagents:\n  - path: "] >>

MCP_SERVER_FIELDS ==
    << [label |-> <<"c", "o", "m", "m", "a", "n", "d">>, detail |-> "Command to run (npx, node, uvx, uv)",
        insertText |-> "command: "],
       [label |-> <<"a", "r", "g", "s">>, detail |-> "Command arguments", insertText |-> "args:\n      - "],
       [label |-> <<"r", "e", "q", "u", "i", "r", "e", "d", "E", "n", "v", "V", "a", "r", "s">>, detail |-> "Required environment variables",
        insertText |-> "requiredEnvVars:\n      - "],
       [label |-> <<"a", "l", "l", "o", "w", "e", "d", "E", "n", "v", "V", "a", "r", "s">>, detail |-> "Optional environment variables",
        insertText |-> "allowedEnvVars:\n      - "],
       [label |-> <<"e", "n", "v">>, detail |-> "Direct environment variables",
        insertText |-> "env:\n      "],
       [label |-> <<"u", "r", "l">>, detail |-> "Remote MCP server URL", insertText |-> "url: "],
       [label |-> <<"a", "u", "t", "h">>, detail |-> "Authentication configuration",
        insertText |-> "auth:\n      type: bearer\n      token: ${"] >>

\* parseFrontmatterFields of the schema generator: FRONTMATTER_FIELDS of a
\* regenerated schema
ParseFrontmatterFields ==
    << [label |-> <<"m", "o", "d", "e", "l">>,
        detail |-> "LLM provider and model (required)",
        insertText |-> "model: "],
       [label |-> <<"d", "e", "s", "c", "r", "i", "p", "t", "i", "o", "n">>,
        detail |-> "Brief description of what the agent does",
        insertText |-> "description: "],
       [label |-> <<"t", "i", "m", "e", "o", "u", "t">>,
        detail |-> "Execution timeout in seconds (default: 300)",
        insertText |-> "timeout: "],
       [label |-> <<"m", "a", "x", "S", "t", "e", "p", "s">>,
        detail |-> "Maximum reasoning steps (default: 100)",
        insertText |-> "maxSteps: "],
       [label |-> <<"o", "p", "e", "n", "a", "i">>,
        detail |-> "OpenAI-specific options (reasoningEffort, textVerbosity)",
        insertText |-> "openai:\n  reasoningEffort: "],
       [label |-> <<"m", "c", "p", "S", "e", "r", "v", "e", "r", "s">>,
        detail |-> "MCP server configurations",
        insertText |-> "mcpServers:\n  "],
       [label |-> <<"s", "u", "b", "a", "g", "e", "n", "t", "s">>,
        detail |-> "Sub-agent definitions",
        insertText |-> "subagents:\n  - path: "],
       [label |-> <<"t", "o", "o", "l", "s">>,
        detail |-> "Custom tool configurations (filesystem, bash)",
        insertText |-> "tools:\n  filesystem:\n    - path: "] >>

\* parseMCPServerFields of the schema generator: MCP_SERVER_FIELDS of a
\* regenerated schema
ParseMCPServerFields ==
    [stdio |-> << [label |-> <<"c", "o", "m", "m", "a", "n", "d">>,
                 detail |-> "Command to run (npx, node, uvx, uv)",
                 insertText |-> "command: "],
                [label |-> <<"a", "r", "g", "s">>,
                 detail |-> "Command arguments array",
                 insertText |-> "args:\n      - "],
                [label |-> <<"e", "n", "v">>,
                 detail |-> "Environment variables object",
                 insertText |-> "env:\n      "] >>,
     http |-> << [label |-> <<"u", "r", "l">>,
                detail |-> "Remote MCP server URL (http:// or https://)",
                insertText |-> "url: "],
               [label |-> <<"s", "e", "s", "s", "i", "o", "n", "I", "d">>,
                detail |-> "Optional session identifier",
                insertText |-> "sessionId: "],
               [label |-> <<"a", "u", "t", "h">>,
                detail |-> "Authentication configuration",
                insertText |-> "auth:\n      type: bearer\n      token: ${env:"],
               [label |-> <<"h", "e", "a", "d", "e", "r", "s">>,
                detail |-> "Custom HTTP headers",
                insertText |-> "headers:\n      "] >>,
     shared |-> << [label |-> <<"r", "e", "q", "u", "i", "r", "e", "d", "E", "n", "v", "V", "a", "r", "s">>,
                  detail |-> "Required environment variables (agent fails if missing)",
                  insertText |-> "requiredEnvVars:\n      - "],
                 [label |-> <<"a", "l", "l", "o", "w", "e", "d", "E", "n", "v", "V", "a", "r", "s">>,
                  detail |-> "Optional environment variables (warns if missing)",
                  insertText |-> "allowedEnvVars:\n      - "],
                 [label |-> <<"d", "i", "s", "a", "l", "l", "o", "w", "e", "d", "T", "o", "o", "l", "s">>,
                  detail |-> "Tool patterns to exclude from this server",
                  insertText |-> "disallowedTools:\n      - "],
                 [label |-> <<"t", "o", "o", "l", "T", "i", "m", "e", "o", "u", "t">>,
                  detail |-> "Timeout for tool calls in milliseconds",
                  insertText |-> "toolTimeout: "] >>]

\* stdio fields, http fields whose label is not a stdio label, shared fields
MCP_SERVER_FIELDS_ALL ==
    ParseMCPServerFields.stdio
        \o SelectSeq(ParseMCPServerFields.http,
                     LAMBDA f : ~\E i \in 1..Len(ParseMCPServerFields.stdio) :
                                    ParseMCPServerFields.stdio[i].label = f.label)
        \o ParseMCPServerFields.shared

MCP_COMMANDS ==
    << [label |-> "npx", detail |-> "Run npm package"],
       [label |-> "node", detail |-> "Run Node.js script"],
       [label |-> "uvx", detail |-> "Run Python package with uv"],
       [label |-> "uv", detail |-> "Run Python with uv"] >>

COMMON_MCP_SERVERS ==
    <<
      [name |-> <<"f", "i", "l", "e", "s", "y", "s", "t", "e", "m">>, detail |-> "File system access",
       snippet |-> "filesystem:\n    command: \"npx\"\n    args:\n      - \"-y\"\n      - \"@modelcontextprotocol/server-filesystem\"\n      - \"${1:./tmp}\""],
      [name |-> <<"p", "u", "p", "p", "e", "t", "e", "e", "r">>, detail |-> "Browser automation",
       snippet |-> "puppeteer:\n    command: \"npx\"\n    args:\n      - \"-y\"\n      - \"@modelcontextprotocol/server-puppeteer\""],
      [name |-> <<"s", "l", "a", "c", "k">>, detail |-> "Slack integration",
       snippet |-> "slack:\n    command: \"npx\"\n    args:\n      - \"-y\"\n      - \"@modelcontextprotocol/server-slack\"\n    allowedEnvVars:\n      - SLACK_BOT_TOKEN\n      - SLACK_TEAM_ID"],
      [name |-> <<"f", "e", "t", "c", "h">>, detail |-> "HTTP fetch capabilities",
       snippet |-> "fetch:\n    command: \"uvx\"\n    args:\n      - \"mcp-server-fetch\""],
      [name |-> <<"g", "i", "t", "h", "u", "b">>, detail |-> "GitHub API access",
       snippet |-> "github:\n    command: \"npx\"\n    args:\n      - \"-y\"\n      - \"@modelcontextprotocol/server-github\"\n    requiredEnvVars:\n      - GITHUB_PERSONAL_ACCESS_TOKEN"],
      [name |-> <<"m", "e", "m", "o", "r", "y">>, detail |-> "Persistent memory storage",
       snippet |-> "memory:\n    command: \"npx\"\n    args:\n      - \"-y\"\n      - \"@modelcontextprotocol/server-memory\""],
      [name |-> <<"b", "r", "a", "v", "e", "-", "s", "e", "a", "r", "c", "h">>, detail |-> "Brave search API",
       snippet |-> "brave-search:\n    command: \"npx\"\n    args:\n      - \"-y\"\n      - \"@modelcontextprotocol/server-brave-search\"\n    requiredEnvVars:\n      - BRAVE_API_KEY"],
      [name |-> <<"g", "o", "o", "g", "l", "e", "-", "m", "a", "p", "s">>, detail |-> "Google Maps API",
       snippet |-> "google-maps:\n    command: \"npx\"\n    args:\n      - \"-y\"\n      - \"@modelcontextprotocol/server-google-maps\"\n    requiredEnvVars:\n      - GOOGLE_MAPS_API_KEY"],
      [name |-> <<"s", "q", "l", "i", "t", "e">>, detail |-> "SQLite database access",
       snippet |-> "sqlite:\n    command: \"uvx\"\n    args:\n      - \"mcp-server-sqlite\"\n      - \"--db-path\"\n      - \"${1:./data.db}\""],
      [name |-> <<"p", "o", "s", "t", "g", "r", "e", "s">>, detail |-> "PostgreSQL database access",
       snippet |-> "postgres:\n    command: \"npx\"\n    args:\n      - \"-y\"\n      - \"@modelcontextprotocol/server-postgres\"\n    requiredEnvVars:\n      - POSTGRES_CONNECTION_STRING"],
      [name |-> <<"e", "x", "a">>, detail |-> "Exa search API",
       snippet |-> "exa:\n    command: \"npx\"\n    args:\n      - \"-y\"\n      - \"exa-mcp-server\"\n    requiredEnvVars:\n      - EXA_API_KEY"],
      [name |-> <<"n", "o", "t", "i", "o", "n">>, detail |-> "Notion integration",
       snippet |-> "notion:\n    command: \"npx\"\n    args:\n      - \"-y\"\n      - \"@suekou/mcp-notion-server\"\n    requiredEnvVars:\n      - NOTION_API_KEY"],
      [name |-> <<"s", "l", "a", "c", "k", "-", "w", "e", "b", "h", "o", "o", "k">>, detail |-> "Slack webhook notifications",
       snippet |-> "slack-webhook:\n    command: \"npx\"\n    args:\n      - \"-y\"\n      - \"@agentuse/mcp-slack-webhook\"\n    requiredEnvVars:\n      - SLACK_WEBHOOK_URL"]
    >>

\* the tables as the older extension.ts declares them inline
InlineSchema ==
    [MODELS |-> MODELS,
     FRONTMATTER_FIELDS |-> FRONTMATTER_FIELDS,
     MCP_SERVER_FIELDS |-> MCP_SERVER_FIELDS,
     MCP_COMMANDS |-> MCP_COMMANDS,
     COMMON_MCP_SERVERS |-> COMMON_MCP_SERVERS]

\* the tables that extension.ts imports from the generated schema, where
\* MCP_SERVER_FIELDS stands for MCP_SERVER_FIELDS_ALL; the generator takes the
\* models from the model list of the command-line tool, for which the inline
\* list stands
GeneratedSchema ==
    [MODELS |-> MODELS,
     FRONTMATTER_FIELDS |-> ParseFrontmatterFields,
     MCP_SERVER_FIELDS |-> MCP_SERVER_FIELDS_ALL,
     MCP_COMMANDS |-> MCP_COMMANDS,
     COMMON_MCP_SERVERS |-> COMMON_MCP_SERVERS]

\* ------------------------------------------------------------------------
\* State of the schema generator (sync-cli.ts)
\* ------------------------------------------------------------------------
VARIABLES
    sync            \* a run of the script: the files it finds and, once main()
                    \* has run, its exit status and what it created and wrote

\* ------------------------------------------------------------------------
\* State of the workspace scan (getAgentUseFiles)
\* ------------------------------------------------------------------------
VARIABLES
    fsys,           \* the directory tree below the workspace folder
    scanDoc,        \* the document of the completion request
    scanResult      \* what getAgentUseFiles returned, once it was called

scanVars == <<fsys, scanDoc, scanResult>>

\* the scan has not been asked for
ScanIdle ==
    /\ fsys = [entries |-> {}, unreadable |-> {}]
    /\ scanDoc = [hasFolder |-> FALSE, dir |-> <<>>]
    /\ scanResult = [done |-> FALSE]

\* ------------------------------------------------------------------------
\* State of a completion request (provideCompletionItems)
\* ------------------------------------------------------------------------
VARIABLES
    complDoc,       \* the lines of the document
    complPos,       \* the cursor: line and character, both from 0
    complResult,    \* what provideCompletionItems returned, once it was called
    hoverResult,    \* what provideHover returned, once it was called
    blockResult,    \* what the three block tests returned, once they were called
    schema,         \* the lookup tables of the module: the table set that was
                    \* loaded and, once an entry was changed, the changed tables
    host,           \* what activate() has registered with the editor
    inlineResult    \* what the editor got for an inline completion request

complVars ==
    <<complDoc, complPos, complResult, hoverResult, blockResult, schema, host, inlineResult>>

\* the registrations of activate(): two providers for documents of the
\* language 'agentuse', two commands, and the four disposables pushed to
\* context.subscriptions
Activated ==
    [activated |-> TRUE,
     providers |-> { [kind |-> "completion", language |-> "agentuse"],
                     [kind |-> "hover", language |-> "agentuse"] },
     commands |-> {"agentuse.run", "agentuse.closeTerminal"},
     subscriptions |-> <<"completionProvider", "hoverProvider",
                         "runCommand", "closeTerminalCommand">>]

Loaded(source) == [source |-> source, changed |-> FALSE]

\* the tables as the providers see them
Tables ==
    IF schema.changed THEN schema.tables
    ELSE IF schema.source = "inline" THEN InlineSchema
    ELSE GeneratedSchema

\* no completion has been asked for
ComplIdle ==
    /\ complDoc = <<>>
    /\ complPos = [line |-> 0, character |-> 0]
    /\ complResult = [done |-> FALSE]
    /\ hoverResult = [done |-> FALSE]
    /\ blockResult = [done |-> FALSE]
    /\ schema = Loaded("generated")
    /\ host = Activated
    /\ inlineResult = [done |-> FALSE]
    /\ sync = [ran |-> FALSE]

\* ------------------------------------------------------------------------
\* State of the run / terminal part
\* ------------------------------------------------------------------------
VARIABLES
    runs,           \* invocations of the agentuse.run command, in order
    ptys,           \* AgentUsePseudoterminal objects (one per created terminal)
    procs,          \* child processes created by cp.spawn
    errorMessages,  \* texts passed to vscode.window.showErrorMessage
    foreign,        \* a terminal that the extension did not create
    steps           \* number of steps taken so far

runVars == <<runs, ptys, procs, errorMessages, foreign, steps>>

\* '.agentuse'
AgentUseExt == <<".", "a", "g", "e", "n", "t", "u", "s", "e">>

\* document paths the active editor may show
DocPaths ==
    { <<"/", "w", "/", "b", " ", "c">> \o AgentUseExt,
      <<"/", "w", "/", "a">> \o AgentUseExt \o <<".", "m", "d">> }

\* chunks a subprocess may emit and inputs the terminal may deliver
Chunks == {<<"o", "k">>, <<"a", LF, "b", LF>>}
Inputs == {<<ETX>>, <<"y", CR>>}
ExitCodes == {0, 130}

\* the `code` argument of the 'close' event: null when a signal ended the process
CloseCode(exit) == IF exit.kind = "signal" THEN JsNull ELSE JsNum(exit.code)

\* name of the terminal that is not an AgentUse terminal
ForeignName == <<"z", "s", "h">>

NoErrorMsg == <<"No active file">>
NotAgentUseMsg == <<"Current file is not an .agentuse file">>

\* one writeEmitter.fire(text); src names the code place that fired it
W(src, text) == [src |-> src, text |-> text]

RunningLine(filePath) == <<"Running: agentuse run \"">> \o filePath \o <<"\"", CR, LF>>
HeaderRule == Repeat("=", 80) \o <<CR, LF, CR, LF>>
FooterRule == <<CR, LF>> \o Repeat("=", 80) \o <<CR, LF>>
ExitLine(code) == <<"Process exited with code ">> \o CodeToString(code) \o <<CR, LF>>
ErrorLine_Bare(message) == <<"Error", CR, LF>>
ErrorLine(message) == <<"Error: ">> \o message \o <<CR, LF>>
CtrlCEcho == <<"^", "C", CR, LF>>
SpawnErrorMessage == <<"spawn /bin/sh ENOENT">>

InitRun ==
    /\ runs = <<>>
    /\ ptys = <<>>
    /\ procs = <<>>
    /\ errorMessages = <<>>
    /\ foreign = "open"
    /\ steps = 0

\* every step of the run part counts against the bound on the behaviour's length
Tick == steps < MaxSteps /\ steps' = steps + 1 /\ UNCHANGED <<scanVars, complVars, sync>>

\* ------------------------------------------------------------------------
\* agentuse.run
\* ------------------------------------------------------------------------
\* the two checks at the start of the run command
PassesChecks_NoExtension(ed) == ed.open

PassesChecks(ed) == ed.open /\ EndsWith(ed.fsPath, AgentUseExt)

\* the run command up to `await document.save()`
RunCommand(ed) ==
    /\ Tick
    /\ IF ~ed.open
         THEN /\ errorMessages' = Append(errorMessages, NoErrorMsg)
              /\ runs' = Append(runs, [editor |-> ed, pc |-> "rejected", save |-> "none"])
         ELSE IF ~PassesChecks(ed)
         THEN /\ errorMessages' = Append(errorMessages, NotAgentUseMsg)
              /\ runs' = Append(runs, [editor |-> ed, pc |-> "rejected", save |-> "none"])
         ELSE /\ errorMessages' = errorMessages
              /\ runs' = Append(runs, [editor |-> ed, pc |-> "awaitSave", save |-> "pending"])
    /\ UNCHANGED <<ptys, procs, foreign>>

\* the promise of document.save() settles
SaveResolves(r) ==
    /\ Tick
    /\ r \in 1..Len(runs)
    /\ runs[r].save = "pending"
    /\ runs' = [runs EXCEPT ![r].save = "settled"]
    /\ UNCHANGED <<ptys, procs, errorMessages, foreign>>

\* the await lets the command continue only once the promise has settled
SaveAwaited_NoAwait(r) == runs[r].save \in {"pending", "settled"}

SaveAwaited(r) == runs[r].save = "settled"

\* filePath.split('/').pop() || 'output'
FileName(filePath) ==
    IF LastSegment(filePath) = <<>> THEN <<"o", "u", "t", "p", "u", "t">>
    ELSE LastSegment(filePath)

TerminalName(filePath) ==
    <<"A", "g", "e", "n", "t", "U", "s", "e", ":", " ">> \o FileName(filePath)

\* new AgentUsePseudoterminal(filePath)
NewPty(r, filePath) ==
    [run |-> r, filePath |-> filePath, name |-> TerminalName(filePath),
     status |-> "created", opens |-> 0, process |-> 0, written |-> <<>>,
     inputs |-> <<>>, closeCalls |-> <<>>, closeFired |-> 0, disposedBy |-> "nobody"]

\* the run command after the await: createTerminal and show
RunContinue(r) ==
    /\ Tick
    /\ r \in 1..Len(runs)
    /\ runs[r].pc = "awaitSave"
    /\ SaveAwaited(r)
    /\ runs' = [runs EXCEPT ![r].pc = "done"]
    /\ ptys' = Append(ptys, NewPty(r, runs[r].editor.fsPath))
    /\ UNCHANGED <<procs, errorMessages, foreign>>

\* ------------------------------------------------------------------------
\* AgentUsePseudoterminal
\* ------------------------------------------------------------------------
\* this.writeEmitter.fire(text) of pseudoterminal t
Fire(ps, t, src, text) == [ps EXCEPT ![t].written = Append(@, W(src, text))]

\* cp.spawn('agentuse', ['run', filePath], {shell: true, ...}) called by
\* pseudoterminal t; ok is whether the operating system could start it
Spawned(t, ok) ==
    [owner |-> t, command |-> <<"agentuse">>, args |-> <<<<"run">>, ptys[t].filePath>>,
     shell |-> TRUE,
     state |-> IF ok THEN "running" ELSE "failed",
     killed |-> FALSE, signals |-> <<>>, stdin |-> <<>>,
     arrived |-> <<>>,
     exit |-> IF ok THEN [kind |-> "none"] ELSE [kind |-> "code", code |-> -2]]

\* open(): the host opens the terminal of pseudoterminal t
Open(t, ok) ==
    /\ Tick
    /\ t \in 1..Len(ptys)
    /\ ptys[t].status = "created"
    /\ procs' = Append(procs, Spawned(t, ok))
    /\ ptys' = [Fire(Fire(ptys, t, "open", RunningLine(ptys[t].filePath)),
                     t, "open", HeaderRule)
                  EXCEPT ![t].status = "open", ![t].opens = @ + 1,
                         ![t].process = Len(procs) + 1]
    /\ UNCHANGED <<runs, errorMessages, foreign>>

\* what a 'data' handler writes for a chunk: data.toString().replace(/\n/g, '\r\n')
DataText_Raw(chunk) == chunk

DataText(chunk) == ReplaceLF(chunk)

\* a 'data' event may arrive until the 'close' event has been emitted
DataMayArrive(p) ==
    /\ p \in 1..Len(procs)
    /\ procs[p].state \in {"running", "exited"}

\* process.stdout 'data' handler, called with a chunk the subprocess wrote
StdoutData(p, chunk) ==
    /\ Tick
    /\ DataMayArrive(p)
    /\ procs' = [procs EXCEPT ![p].arrived = Append(@, [stream |-> "stdout", chunk |-> chunk])]
    /\ ptys' = Fire(ptys, procs[p].owner, "stdout", DataText(chunk))
    /\ UNCHANGED <<runs, errorMessages, foreign>>

\* process.stderr 'data' handler, called with a chunk the subprocess wrote
StderrData_Dropped(p, chunk) ==
    /\ Tick
    /\ DataMayArrive(p)
    /\ procs' = [procs EXCEPT ![p].arrived = Append(@, [stream |-> "stderr", chunk |-> chunk])]
    /\ UNCHANGED <<runs, ptys, errorMessages, foreign>>

StderrData(p, chunk) ==
    /\ Tick
    /\ DataMayArrive(p)
    /\ procs' = [procs EXCEPT ![p].arrived = Append(@, [stream |-> "stderr", chunk |-> chunk])]
    /\ ptys' = Fire(ptys, procs[p].owner, "stderr", DataText(chunk))
    /\ UNCHANGED <<runs, errorMessages, foreign>>

\* the subprocess terminates, with an exit code or by a signal it was sent
ProcExit(p, outcome) ==
    /\ Tick
    /\ p \in 1..Len(procs)
    /\ procs[p].state = "running"
    /\ outcome.kind = "signal" =>
          \E i \in 1..Len(procs[p].signals) : procs[p].signals[i].sig = outcome.signal
    /\ procs' = [procs EXCEPT ![p].state = "exited", ![p].exit = outcome]
    /\ UNCHANGED <<runs, ptys, errorMessages, foreign>>

\* a 'close' handler that also fires closeEmitter, on which the host disposes
\* the terminal
CloseEvent_ClosesTerminal(p) ==
    /\ Tick
    /\ p \in 1..Len(procs)
    /\ procs[p].state \in {"exited", "errored"}
    /\ procs' = [procs EXCEPT ![p].state = "closed"]
    /\ ptys' = [Fire(Fire(ptys, procs[p].owner, "close", FooterRule),
                     procs[p].owner, "close", ExitLine(CloseCode(procs[p].exit)))
                  EXCEPT ![procs[p].owner].closeFired = @ + 1,
                         ![procs[p].owner].status = "disposed"]
    /\ UNCHANGED <<runs, errorMessages, foreign>>

\* process 'close' handler: emitted once the process has ended and its
\* stdio streams are closed
CloseEvent(p) ==
    /\ Tick
    /\ p \in 1..Len(procs)
    /\ procs[p].state \in {"exited", "errored"}
    /\ procs' = [procs EXCEPT ![p].state = "closed"]
    /\ ptys' = Fire(Fire(ptys, procs[p].owner, "close", FooterRule),
                    procs[p].owner, "close", ExitLine(CloseCode(procs[p].exit)))
    /\ UNCHANGED <<runs, errorMessages, foreign>>

\* process 'error' handler
ErrorEvent_Retry(p) ==
    /\ Tick
    /\ p \in 1..Len(procs)
    /\ procs[p].state = "failed"
    /\ procs' = Append([procs EXCEPT ![p].state = "errored"], Spawned(procs[p].owner, TRUE))
    /\ ptys' = [Fire(ptys, procs[p].owner, "error", ErrorLine(SpawnErrorMessage))
                  EXCEPT ![procs[p].owner].process = Len(procs) + 1]
    /\ UNCHANGED <<runs, errorMessages, foreign>>

ErrorEvent(p) ==
    /\ Tick
    /\ p \in 1..Len(procs)
    /\ procs[p].state = "failed"
    /\ procs' = [procs EXCEPT ![p].state = "errored"]
    /\ ptys' = Fire(ptys, procs[p].owner, "error", ErrorLine(SpawnErrorMessage))
    /\ UNCHANGED <<runs, errorMessages, foreign>>

\* this.process of pseudoterminal t (0: undefined)
ThisProcess_Shared(t) == Len(procs)

ThisProcess(t) == ptys[t].process

\* ChildProcess.kill(sig): delivers the signal and sets `killed` when the
\* process handle is still live, does nothing otherwise
Kill(ps, p, sig, by) ==
    IF ps[p].state = "running"
    THEN [ps EXCEPT ![p].signals = Append(@, [sig |-> sig, by |-> by]),
                    ![p].killed = TRUE]
    ELSE ps

\* the test `this.process && !this.process.killed`
NotKilled(p) == p # 0 /\ ~procs[p].killed

\* a handleInput that echoes what it forwards
HandleInput_Echo(t, data) ==
    /\ t \in 1..Len(ptys)
    /\ ptys[t].status \in {"created", "open"}
    /\ Tick
    /\ LET p == ThisProcess(t)
           seen == [ptys EXCEPT ![t].inputs =
                       Append(@, [data |-> data,
                                  proc |-> IF p = 0 THEN "none" ELSE procs[p].state])]
       IN  IF data = <<ETX>>
           THEN IF NotKilled(p)
                THEN /\ procs' = Kill(procs, p, "SIGINT", "handleInput")
                     /\ ptys' = Fire(seen, t, "input", CtrlCEcho)
                ELSE /\ procs' = procs
                     /\ ptys' = seen
           ELSE IF p # 0
                THEN /\ procs' = [procs EXCEPT ![p].stdin = Append(@, data)]
                     /\ ptys' = Fire(seen, t, "input", data)
                ELSE /\ procs' = procs
                     /\ ptys' = seen
    /\ UNCHANGED <<runs, errorMessages, foreign>>

\* handleInput(data)
HandleInput(t, data) ==
    /\ t \in 1..Len(ptys)
    /\ ptys[t].status \in {"created", "open"}
    /\ Tick
    /\ LET p == ThisProcess(t)
           seen == [ptys EXCEPT ![t].inputs =
                       Append(@, [data |-> data,
                                  proc |-> IF p = 0 THEN "none" ELSE procs[p].state])]
       IN  IF data = <<ETX>>
           THEN IF NotKilled(p)
                THEN /\ procs' = Kill(procs, p, "SIGINT", "handleInput")
                     /\ ptys' = Fire(seen, t, "input", CtrlCEcho)
                ELSE /\ procs' = procs
                     /\ ptys' = seen
           ELSE IF p # 0
                THEN /\ procs' = [procs EXCEPT ![p].stdin = Append(@, data)]
                     /\ ptys' = seen
                ELSE /\ procs' = procs
                     /\ ptys' = seen
    /\ UNCHANGED <<runs, errorMessages, foreign>>

\* close() of pseudoterminal t, called by the host when its terminal is disposed
PtyClose(t, by) ==
    LET p == ThisProcess(t)
    IN  /\ procs' = IF NotKilled(p) THEN Kill(procs, p, "SIGTERM", "close") ELSE procs
        /\ ptys' = [ptys EXCEPT ![t].status = "disposed",
                                ![t].disposedBy = by,
                                ![t].closeCalls =
                                    Append(@, IF p = 0 THEN "none" ELSE procs[p].state)]

\* the user disposes the terminal of pseudoterminal t (trash icon, window close)
DisposeTerminal(t) ==
    /\ Tick
    /\ t \in 1..Len(ptys)
    /\ ptys[t].status \in {"created", "open"}
    /\ PtyClose(t, "user")
    /\ UNCHANGED <<runs, errorMessages, foreign>>

\* ------------------------------------------------------------------------
\* agentuse.closeTerminal
\* ------------------------------------------------------------------------
\* vscode.window.activeTerminal: undefined, the foreign terminal, or the
\* terminal of a pseudoterminal
ActiveTerminals ==
    {[kind |-> "none"]}
        \cup (IF foreign = "open" THEN {[kind |-> "foreign"]} ELSE {})
        \cup {[kind |-> "pty", t |-> t] :
                 t \in {u \in 1..Len(ptys) : ptys[u].status \in {"created", "open"}}}

\* the test of the close-terminal command
IsAgentUseTerminal_Any(a) == a.kind # "none"

IsAgentUseTerminal(a) ==
    /\ a.kind # "none"
    /\ StartsWith(IF a.kind = "foreign" THEN ForeignName ELSE ptys[a.t].name,
                  <<"A", "g", "e", "n", "t", "U", "s", "e", ":">>)

CloseTerminalCommand(a) ==
    /\ Tick
    /\ a \in ActiveTerminals
    /\ IF IsAgentUseTerminal(a)
         THEN IF a.kind = "foreign"
              THEN foreign' = "disposed" /\ UNCHANGED <<ptys, procs>>
              ELSE PtyClose(a.t, "command") /\ foreign' = foreign
         ELSE UNCHANGED <<ptys, procs, foreign>>
    /\ UNCHANGED <<runs, errorMessages>>

NextRun ==
    \/ \E ed \in {[open |-> FALSE]} \cup {[open |-> TRUE, fsPath |-> p] : p \in DocPaths} :
          RunCommand(ed)
    \/ \E r \in 1..Len(runs) : SaveResolves(r)
    \/ \E r \in 1..Len(runs) : RunContinue(r)
    \/ \E t \in 1..Len(ptys), ok \in BOOLEAN : Open(t, ok)
    \/ \E p \in 1..Len(procs), chunk \in Chunks : StdoutData(p, chunk)
    \/ \E p \in 1..Len(procs), chunk \in Chunks : StderrData(p, chunk)
    \/ \E p \in 1..Len(procs),
          outcome \in {[kind |-> "code", code |-> c] : c \in ExitCodes}
                        \cup {[kind |-> "signal", signal |-> sig] : sig \in {"SIGINT", "SIGTERM"}} :
          ProcExit(p, outcome)
    \/ \E p \in 1..Len(procs) : CloseEvent(p)
    \/ \E p \in 1..Len(procs) : ErrorEvent(p)
    \/ \E t \in 1..Len(ptys), data \in Inputs : HandleInput(t, data)
    \/ \E t \in 1..Len(ptys) : DisposeTerminal(t)
    \/ \E a \in ActiveTerminals : CloseTerminalCommand(a)

vars ==
    <<runs, ptys, procs, errorMessages, foreign, steps,
      fsys, scanDoc, scanResult, complDoc, complPos, complResult,
      hoverResult, blockResult, schema, host, inlineResult, sync>>

Init == InitRun /\ ScanIdle /\ ComplIdle
Next == NextRun
Spec == Init /\ [][Next]_vars

\* ------------------------------------------------------------------------
\* Properties of the run / terminal part
\* ------------------------------------------------------------------------
PtysOfRun(r) == {t \in 1..Len(ptys) : ptys[t].run = r}

\* the writes of pseudoterminal t that forward subprocess output
DataWrites(t) == SelectSeq(ptys[t].written, LAMBDA w : w.src \in {"stdout", "stderr"})

\* C1: every run invocation that passes its checks and has run to its end
\* has created exactly one pseudoterminal (an invocation that has not, none);
\* every pseudoterminal has spawned exactly as many subprocesses as it was
\* opened (at most one), each as `agentuse run <file path>`, so the number of
\* subprocesses equals the number of opened pseudoterminals and none is
\* spawned again after it exited or failed.
C1_OneProcessPerRun ==
    /\ \A r \in 1..Len(runs) :
          Cardinality(PtysOfRun(r)) = IF runs[r].pc = "done" THEN 1 ELSE 0
    /\ \A t \in 1..Len(ptys) :
          /\ ptys[t].opens = IF ptys[t].written = <<>> THEN 0 ELSE 1
          /\ Cardinality({p \in 1..Len(procs) : procs[p].owner = t}) = ptys[t].opens
          /\ ptys[t].filePath = runs[ptys[t].run].editor.fsPath
    /\ \A p \in 1..Len(procs) :
          /\ procs[p].command = <<"agentuse">>
          /\ procs[p].args = <<<<"run">>, ptys[procs[p].owner].filePath>>
    /\ Len(procs) = Cardinality({t \in 1..Len(ptys) : ptys[t].opens > 0})

\* a subprocess failed to start, its error and close events were handled,
\* and a second run is under way
C1_Witness ==
    /\ \E p \in 1..Len(procs) :
          procs[p].state = "closed" /\ procs[p].exit = [kind |-> "code", code |-> -2]
    /\ Len(runs) = 2

\* the Ctrl+C inputs that pseudoterminal t received while its subprocess ran
CtrlCWhileRunning(t) ==
    SelectSeq(ptys[t].inputs, LAMBDA i : i.data = <<ETX>> /\ i.proc = "running")

SignalsBy(p, by) == SelectSeq(procs[p].signals, LAMBDA s : s.by = by)

\* C2: each Ctrl+C that handleInput receives while the subprocess runs sends
\* SIGINT to it: the subprocess has been sent as many SIGINTs by handleInput
\* as such requests were received.
C2_SigintOnEveryCtrlC ==
    \A t \in 1..Len(ptys) :
        ptys[t].process # 0 =>
            /\ Len(SignalsBy(ptys[t].process, "handleInput")) = Len(CtrlCWhileRunning(t))
            /\ \A i \in 1..Len(SignalsBy(ptys[t].process, "handleInput")) :
                  SignalsBy(ptys[t].process, "handleInput")[i].sig = "SIGINT"

\* C3: the writes that forward output are, one for one and in order, the
\* chunks whose data events arrived; they come after the two header writes of
\* open() and before the footer writes of the close event.
C3_OutputForwardedInOrder ==
    \A t \in 1..Len(ptys) :
        LET w == ptys[t].written
            arrived == IF ptys[t].process = 0 THEN <<>> ELSE procs[ptys[t].process].arrived
        IN  /\ Len(DataWrites(t)) = Len(arrived)
            /\ \A i \in 1..Len(arrived) :
                  /\ DataWrites(t)[i].src = arrived[i].stream
                  /\ DataWrites(t)[i].text = DataText(arrived[i].chunk)
            /\ w # <<>> =>
                  /\ Len(w) >= 2
                  /\ w[1] = W("open", RunningLine(ptys[t].filePath))
                  /\ w[2] = W("open", HeaderRule)
            /\ \A i \in 1..Len(w) :
                  w[i].src \in {"stdout", "stderr"} =>
                      /\ i > 2
                      /\ \A j \in 1..Len(w) : w[j].src = "close" => i < j

\* a subprocess whose stdout and stderr chunks both arrived has closed
C3_Witness ==
    \E p \in 1..Len(procs) :
        /\ procs[p].state = "closed"
        /\ Len(procs[p].arrived) = 2
        /\ procs[p].arrived[1].stream # procs[p].arrived[2].stream

\* C4: a subprocess exists only if the document.save() started by its run
\* action has completed.
C4_SpawnAfterSave ==
    \A p \in 1..Len(procs) : runs[ptys[procs[p].owner].run].save = "settled"

\* one run has spawned its subprocess while the save of another is pending
C4_Witness ==
    /\ Len(procs) >= 1
    /\ \E r \in 1..Len(runs) : runs[r].save = "pending"

\* C5: whenever close() was called on a pseudoterminal whose subprocess was
\* running, close() has sent that subprocess a termination signal.
C5_CloseSignalsRunningProcess ==
    \A t \in 1..Len(ptys) :
        (\E i \in 1..Len(ptys[t].closeCalls) : ptys[t].closeCalls[i] = "running") =>
            Len(SignalsBy(ptys[t].process, "close")) >= 1

\* C6: a run invocation without an active editor, or on a document whose path
\* does not end in '.agentuse', shows an error message and stops: no save, no
\* terminal, no subprocess.
C6_ExtensionGatesRun ==
    /\ \A r \in 1..Len(runs) :
          (~runs[r].editor.open \/ ~EndsWith(runs[r].editor.fsPath, AgentUseExt)) =>
              /\ runs[r].pc = "rejected"
              /\ runs[r].save = "none"
              /\ PtysOfRun(r) = {}
              /\ \A p \in 1..Len(procs) : ptys[procs[p].owner].run # r
    /\ Len(errorMessages) = Cardinality({r \in 1..Len(runs) : runs[r].pc = "rejected"})
    /\ \A i \in 1..Len(errorMessages) : errorMessages[i] \in {NoErrorMsg, NotAgentUseMsg}
    /\ (\E r \in 1..Len(runs) : ~runs[r].editor.open) <=>
          (\E i \in 1..Len(errorMessages) : errorMessages[i] = NoErrorMsg)

\* a run was rejected for its file extension and a later one was accepted
C6_Witness ==
    /\ \E r \in 1..Len(runs) : runs[r].editor.open /\ runs[r].pc = "rejected"
    /\ \E r \in 1..Len(runs) : runs[r].pc = "done"
    /\ steps = MaxSteps

\* the footer line of a closed subprocess, as pseudoterminal t wrote it
ExitWrites(t) ==
    SelectSeq(ptys[t].written,
              LAMBDA w : w.src = "close" /\ w.text # FooterRule)

\* C7 as stated: the text written for a stderr chunk is the chunk's text, and
\* the footer reports the exit code the subprocess terminated with.
C7_SurfacedUnmodified ==
    \A t \in 1..Len(ptys) :
        /\ \A i \in 1..Len(DataWrites(t)) :
              DataWrites(t)[i].src = "stderr" =>
                  DataWrites(t)[i].text = procs[ptys[t].process].arrived[i].chunk
        /\ \A i \in 1..Len(ExitWrites(t)) :
              \E c \in ExitCodes \cup {-2} :
                  /\ procs[ptys[t].process].exit = [kind |-> "code", code |-> c]
                  /\ ExitWrites(t)[i].text =
                        <<"Process exited with code ">> \o CodeToString(JsNum(c)) \o <<CR, LF>>

\* C7 amended: the text written for a stdout or stderr chunk is the chunk's
\* text with every line feed replaced by carriage return + line feed; the
\* footer reports the exit code of a subprocess that exited by itself and
\* 'null' for one that a signal terminated.
C7_SurfacedWithCRLF ==
    \A t \in 1..Len(ptys) :
        /\ \A i \in 1..Len(DataWrites(t)) :
              DataWrites(t)[i].text = ReplaceLF(procs[ptys[t].process].arrived[i].chunk)
        /\ \A i \in 1..Len(ExitWrites(t)) :
              LET exit == procs[ptys[t].process].exit
              IN  ExitWrites(t)[i].text =
                      IF exit.kind = "signal"
                      THEN <<"Process exited with code ", "n", "u", "l", "l", CR, LF>>
                      ELSE <<"Process exited with code ">>
                               \o CodeToString(JsNum(exit.code)) \o <<CR, LF>>

\* a subprocess wrote a stderr chunk with line feeds and was ended by a signal
C7_Witness ==
    \E p \in 1..Len(procs) :
        /\ procs[p].state = "closed"
        /\ procs[p].exit.kind = "signal"
        /\ \E i \in 1..Len(procs[p].arrived) :
              /\ procs[p].arrived[i].stream = "stderr"
              /\ \E k \in 1..Len(procs[p].arrived[i].chunk) : procs[p].arrived[i].chunk[k] = LF

\* C9: a step that delivers input or close() to a pseudoterminal changes no
\* subprocess but that pseudoterminal's own and no other pseudoterminal; a
\* step in which a subprocess's output, exit or error is handled changes no
\* pseudoterminal but its own.
C9_NoSharedState ==
    [][ /\ \A t \in 1..Len(ptys) :
              (ptys'[t].inputs # ptys[t].inputs \/ ptys'[t].closeCalls # ptys[t].closeCalls) =>
                  /\ \A p \in 1..Len(procs) : procs'[p] # procs[p] => procs[p].owner = t
                  /\ \A u \in 1..Len(ptys) : u # t => ptys'[u] = ptys[u]
        /\ \A p \in 1..Len(procs) :
              (procs'[p].arrived # procs[p].arrived \/ procs'[p].state # procs[p].state) =>
                  \A u \in 1..Len(ptys) : u # procs[p].owner => ptys'[u] = ptys[u]
      ]_vars

\* two pseudoterminals have live subprocesses and one of them handled Ctrl+C
C9_Witness ==
    \E t, u \in 1..Len(ptys) :
        /\ t # u
        /\ ptys[t].process # 0 /\ procs[ptys[t].process].state = "running"
        /\ ptys[u].process # 0 /\ procs[ptys[u].process].state = "running"
        /\ procs[ptys[t].process].signals # <<>>

\* ------------------------------------------------------------------------
\* Workspace scan of the completion provider
\* ------------------------------------------------------------------------
\* maxDepth argument of the scan
ScanMaxDepth == 3

\* entry names; a path is the sequence of names below the workspace folder
NameAgent == <<"a">> \o AgentUseExt
NameHidden == <<".", "h">>
NameNodeModules == <<"n", "o", "d", "e", "_", "m", "o", "d", "u", "l", "e", "s">>
NameSub == <<"s">>

File(path) == [path |-> path, isDir |-> FALSE]
Dir(path) == [path |-> path, isDir |-> TRUE]

\* the entries a workspace folder may contain
Candidates ==
    { File(<<NameAgent>>), File(<<<<"m", ".", "m", "d">>>>), File(<<AgentUseExt>>),
      Dir(<<NameHidden>>), File(<<NameHidden, NameAgent>>),
      Dir(<<NameNodeModules>>), File(<<NameNodeModules, NameAgent>>),
      Dir(<<NameSub>>), File(<<NameSub, NameAgent>>),
      Dir(<<NameSub, NameSub>>), File(<<NameSub, NameSub, NameAgent>>),
      Dir(<<NameSub, NameSub, NameSub>>),
      File(<<NameSub, NameSub, NameSub, NameAgent>>) }

Parent(path) == SubSeq(path, 1, Len(path) - 1)

\* directory trees: every entry below the root lies in a directory of the tree
FileSystems ==
    { es \in SUBSET Candidates :
        \A e \in es : Len(e.path) > 1 => Dir(Parent(e.path)) \in es }

DirsOf(es) == {<<>>} \cup {e.path : e \in {x \in es : x.isDir}}

RECURSIVE SetToSeq(_)
SetToSeq(S) ==
    IF S = {} THEN <<>>
    ELSE LET x == CHOOSE y \in S : TRUE IN <<x>> \o SetToSeq(S \ {x})

\* fs.readdirSync(dir, {withFileTypes: true}): throws for a directory that
\* cannot be read
ReadDirSync(dir) ==
    IF dir \in fsys.unreadable
    THEN [threw |-> TRUE]
    ELSE [threw |-> FALSE,
          entries |-> SetToSeq({e \in fsys.entries : Parent(e.path) = dir /\ e.path # <<>>})]

EntryName(e) == e.path[Len(e.path)]

\* only hidden entries are skipped
IsSkipped_HiddenOnly(name) == StartsWith(name, <<".">>)

\* entry.name.startsWith('.') || entry.name === 'node_modules'
IsSkipped(name) == StartsWith(name, <<".">>) \/ name = NameNodeModules

\* the catch block of findAgentUseFilesRecursive: ignore, return files
ScanCatch_Rethrow(files) == [threw |-> TRUE, files |-> <<>>]

ScanCatch(files) == [threw |-> FALSE, files |-> files]

RECURSIVE FindAgentUseFilesRecursive(_, _, _)
RECURSIVE ScanEntries(_, _, _, _)

\* the for loop of findAgentUseFilesRecursive over the entries still to
\* visit; reads are the directories handed to readdirSync, in order
ScanEntries(entries, maxDepth, currentDepth, files) ==
    IF entries = <<>> THEN [threw |-> FALSE, files |-> files, reads |-> <<>>]
    ELSE LET entry == Head(entries)
             fullPath == entry.path
         IN  IF IsSkipped(EntryName(entry))
             THEN ScanEntries(Tail(entries), maxDepth, currentDepth, files)
             ELSE IF entry.isDir
             THEN LET sub == FindAgentUseFilesRecursive(fullPath, maxDepth, currentDepth + 1)
                  IN  IF sub.threw
                      THEN [threw |-> TRUE, files |-> files, reads |-> sub.reads]
                      ELSE LET rest == ScanEntries(Tail(entries), maxDepth, currentDepth,
                                                   files \o sub.files)
                           IN  [rest EXCEPT !.reads = sub.reads \o @]
             ELSE IF EndsWith(EntryName(entry), AgentUseExt)
             THEN ScanEntries(Tail(entries), maxDepth, currentDepth, Append(files, fullPath))
             ELSE ScanEntries(Tail(entries), maxDepth, currentDepth, files)

FindAgentUseFilesRecursive(dir, maxDepth, currentDepth) ==
    IF currentDepth >= maxDepth THEN [threw |-> FALSE, files |-> <<>>, reads |-> <<>>]
    ELSE LET read == ReadDirSync(dir)
             loop == ScanEntries(read.entries, maxDepth, currentDepth, <<>>)
             caught == ScanCatch(IF read.threw THEN <<>> ELSE loop.files)
         IN  IF read.threw
             THEN [threw |-> caught.threw, files |-> caught.files, reads |-> <<dir>>]
             ELSE IF loop.threw
             THEN [threw |-> caught.threw, files |-> caught.files,
                   reads |-> <<dir>> \o loop.reads]
             ELSE [threw |-> FALSE, files |-> loop.files, reads |-> <<dir>> \o loop.reads]

\* length of the common prefix of two paths
RECURSIVE CommonPrefix(_, _)
CommonPrefix(a, b) ==
    IF a = <<>> \/ b = <<>> THEN 0
    ELSE IF Head(a) # Head(b) THEN 0
    ELSE 1 + CommonPrefix(Tail(a), Tail(b))

\* segs.join('/')
RECURSIVE JoinPath(_)
JoinPath(segs) ==
    IF segs = <<>> THEN <<>>
    ELSE IF Len(segs) = 1 THEN Head(segs)
    ELSE Head(segs) \o <<"/">> \o JoinPath(Tail(segs))

\* path.relative(from, to)
PathRelative(from, to) ==
    LET k == CommonPrefix(from, to)
    IN  JoinPath([i \in 1..(Len(from) - k) |-> <<".", ".">>]
                     \o SubSeq(to, k + 1, Len(to)))

\* the completion item of one file found by the scan
FileItem_NoDotSlash(currentDir, file) ==
    [label |-> PathRelative(currentDir, file),
     kind |-> "File",
     detail |-> file[Len(file)]]

FileItem(currentDir, file) ==
    [label |-> <<".", "/">> \o PathRelative(currentDir, file),
     kind |-> "File",
     detail |-> file[Len(file)]]

\* getAgentUseFiles(document); scan is what its call of
\* findAgentUseFilesRecursive returned and read
GetAgentUseFiles(document) ==
    IF ~document.hasFolder
    THEN [threw |-> FALSE, items |-> <<>>, scan |-> [called |-> FALSE]]
    ELSE LET found == FindAgentUseFilesRecursive(<<>>, ScanMaxDepth, 0)
         IN  IF found.threw
             THEN [threw |-> FALSE, items |-> <<>>,
                   scan |-> [called |-> TRUE, threw |-> TRUE, reads |-> found.reads]]
             ELSE [threw |-> FALSE,
                   items |-> [i \in 1..Len(found.files) |->
                                 FileItem(document.dir, found.files[i])],
                   scan |-> [called |-> TRUE, threw |-> FALSE, files |-> found.files,
                             reads |-> found.reads]]

\* a completion request asks for the workspace's .agentuse files
InitScan ==
    /\ InitRun
    /\ ComplIdle
    /\ \E es \in FileSystems :
          /\ fsys \in {[entries |-> es, unreadable |-> u] : u \in SUBSET DirsOf(es)}
          /\ scanDoc \in {[hasFolder |-> h, dir |-> d] :
                            h \in BOOLEAN, d \in DirsOf(es) \cap {<<>>, <<NameSub>>}}
    /\ scanResult = [done |-> FALSE]

ScanRequest ==
    /\ ~scanResult.done
    /\ scanResult' = [done |-> TRUE, result |-> GetAgentUseFiles(scanDoc)]
    /\ UNCHANGED <<fsys, scanDoc, runVars, complVars, sync>>

NextScan == ScanRequest

SpecScan == InitScan /\ [][NextScan]_vars

\* the files a scan has to return: .agentuse files at most three levels deep
\* whose names on the way are not skipped and whose directories can be read
ScanVisible ==
    { e.path : e \in
        { x \in fsys.entries :
            /\ ~x.isDir
            /\ EndsWith(EntryName(x), AgentUseExt)
            /\ Len(x.path) <= 3
            /\ \A k \in 1..Len(x.path) :
                  ~(x.path[k][1] = "." \/ x.path[k] = NameNodeModules)
            /\ \A k \in 0..(Len(x.path) - 1) : SubSeq(x.path, 1, k) \notin fsys.unreadable } }

\* C8: getAgentUseFiles never throws; without a workspace folder it returns
\* the empty list; otherwise it returns one item per .agentuse file that the
\* scan can reach through readable directories, so that a directory that
\* cannot be read contributes nothing and takes nothing away from the others.
C8_ScanFailuresSuppressed ==
    scanResult.done =>
        /\ ~scanResult.result.threw
        /\ ~scanDoc.hasFolder => scanResult.result.items = <<>>
        /\ scanDoc.hasFolder =>
              /\ {scanResult.result.items[i].label :
                     i \in 1..Len(scanResult.result.items)}
                   = {<<".", "/">> \o PathRelative(scanDoc.dir, f) : f \in ScanVisible}
              /\ Len(scanResult.result.items) = Cardinality(ScanVisible)

\* a scan met a subdirectory it could not read and still returned the files
\* of the root and of the directory next to it
C8_Witness ==
    /\ scanResult.done
    /\ scanDoc.hasFolder
    /\ <<NameSub, NameSub>> \in fsys.unreadable
    /\ File(<<NameSub, NameSub, NameAgent>>) \in fsys.entries
    /\ Len(scanResult.result.items) = 2

\* ------------------------------------------------------------------------
\* Completion provider
\* ------------------------------------------------------------------------
\* number of lines of a document of a completion request
MaxDocLines == 4

\* \s of a regular expression
IsSpace(c) == c \in {" ", "\t", LF, CR}

\* s.trim() === ''
IsBlank(s) == \A i \in 1..Len(s) : IsSpace(s[i])

\* length of the match of /^(\s*)/
RECURSIVE LeadingSpace(_)
LeadingSpace(s) ==
    IF s = <<>> THEN 0
    ELSE IF IsSpace(Head(s)) THEN 1 + LeadingSpace(Tail(s))
    ELSE 0

\* s.substring(from) with from counted from 0
From(s, from) == SubSeq(s, from + 1, Len(s))

\* /^\s*<key>\s*$/
MatchesKeyOnly(s, key) ==
    LET rest == From(s, LeadingSpace(s))
    IN  StartsWith(rest, key) /\ IsBlank(From(rest, Len(key)))

\* /^\s*command:\s*["']?$/
MatchesCommand(s) ==
    LET rest == From(s, LeadingSpace(s))
        key == <<"c", "o", "m", "m", "a", "n", "d", ":">>
        after == From(rest, Len(key))
        tail == From(after, LeadingSpace(after))
    IN  /\ StartsWith(rest, key)
        /\ tail \in {<<>>, <<"\"">>, <<"'">>}

\* lines.join('\n')
RECURSIVE JoinLines(_)
JoinLines(lines) ==
    IF lines = <<>> THEN <<>>
    ELSE IF Len(lines) = 1 THEN Head(lines)
    ELSE Head(lines) \o <<LF>> \o JoinLines(Tail(lines))

\* text.split('\n')
RECURSIVE SplitLines(_)
SplitLines(text) ==
    IF \A i \in 1..Len(text) : text[i] # LF THEN <<text>>
    ELSE LET k == CHOOSE i \in 1..Len(text) :
                      text[i] = LF /\ \A j \in 1..(i - 1) : text[j] # LF
         IN  <<SubSeq(text, 1, k - 1)>> \o SplitLines(From(text, k))

\* document.offsetAt(position)
RECURSIVE OffsetAt(_, _)
OffsetAt(lines, position) ==
    IF position.line = 0 THEN position.character
    ELSE Len(Head(lines)) + 1
            + OffsetAt(Tail(lines), [position EXCEPT !.line = @ - 1])

\* the lazy group ([\s\S]*?) of the frontmatter pattern ends at the first
\* offset k at which (\n---|\n?$) matches
RECURSIVE FrontmatterClose(_, _)
FrontmatterClose(text, k) ==
    IF StartsWith(From(text, k), <<LF, "-", "-", "-">>)
    THEN [content |-> SubSeq(text, 5, k), length |-> k + 4]
    ELSE IF From(text, k) \in {<<>>, <<LF>>}
    THEN [content |-> SubSeq(text, 5, k), length |-> Len(text)]
    ELSE FrontmatterClose(text, k + 1)

\* a match that takes the whole rest of the text as frontmatter
FrontmatterMatch_ToEnd(text) ==
    IF ~StartsWith(text, <<"-", "-", "-", LF>>) THEN [matched |-> FALSE]
    ELSE [matched |-> TRUE, content |-> SubSeq(text, 5, Len(text)), length |-> Len(text)]

\* text.match(/^---\n([\s\S]*?)(\n---|\n?$)/)
FrontmatterMatch(text) ==
    IF ~StartsWith(text, <<"-", "-", "-", LF>>) THEN [matched |-> FALSE]
    ELSE LET close == FrontmatterClose(text, 4)
         IN  [matched |-> TRUE, content |-> close.content, length |-> close.length]

\* the loop shared by the three block tests: the keys are the texts that
\* open the block at the start of a line
RECURSIVE BlockLoop(_, _, _, _, _)
BlockLoop(lines, i, last, keys, inBlock) ==
    IF i > last THEN inBlock
    ELSE LET line == lines[i + 1]
         IN  IF \E key \in keys : StartsWith(line, key)
             THEN BlockLoop(lines, i + 1, last, keys, TRUE)
             ELSE IF inBlock /\ ~IsBlank(line) /\ ~(line # <<>> /\ IsSpace(line[1]))
             THEN BlockLoop(lines, i + 1, last, keys, FALSE)
             ELSE BlockLoop(lines, i + 1, last, keys, inBlock)

\* a block test that never leaves the block once its key was seen
IsInBlock_NeverLeft(position, frontmatter, keys) ==
    LET frontmatterLineIndex == position.line - 1
        lines == SplitLines(frontmatter)
    IN  IF frontmatterLineIndex < 0 \/ frontmatterLineIndex >= Len(lines) THEN FALSE
        ELSE \E k \in 1..(frontmatterLineIndex + 1) :
                \E key \in keys : StartsWith(lines[k], key)

IsInBlock(position, frontmatter, keys) ==
    LET frontmatterLineIndex == position.line - 1
        lines == SplitLines(frontmatter)
    IN  IF frontmatterLineIndex < 0 \/ frontmatterLineIndex >= Len(lines) THEN FALSE
        ELSE BlockLoop(lines, 0, frontmatterLineIndex, keys, FALSE)

IsInMcpServersBlock(position, frontmatter) ==
    IsInBlock(position, frontmatter, {<<"m", "c", "p", "_", "s", "e", "r", "v", "e", "r", "s", ":">>, <<"m", "c", "p", "S", "e", "r", "v", "e", "r", "s", ":">>})

IsInSubagentsBlock(position, frontmatter) ==
    IsInBlock(position, frontmatter, {<<"s", "u", "b", "a", "g", "e", "n", "t", "s", ":">>})

IsInToolsBlock_SubagentsKey(position, frontmatter) ==
    IsInBlock(position, frontmatter, {<<"s", "u", "b", "a", "g", "e", "n", "t", "s", ":">>})

IsInToolsBlock(position, frontmatter) ==
    IsInBlock(position, frontmatter, {<<"t", "o", "o", "l", "s", ":">>})

\* \w of a regular expression
IsWordChar(c) ==
    c \in {"a", "b", "c", "d", "e", "f", "g", "h", "i", "j", "k", "l", "m", "n",
           "o", "p", "q", "r", "s", "t", "u", "v", "w", "x", "y", "z",
           "A", "B", "C", "D", "E", "F", "G", "H", "I", "J", "K", "L", "M", "N",
           "O", "P", "Q", "R", "S", "T", "U", "V", "W", "X", "Y", "Z",
           "0", "1", "2", "3", "4", "5", "6", "7", "8", "9", "_"}

RECURSIVE LeadingWord(_)
LeadingWord(s) ==
    IF s = <<>> THEN <<>>
    ELSE IF IsWordChar(Head(s)) THEN <<Head(s)>> \o LeadingWord(Tail(s))
    ELSE <<>>

\* no field counts as existing
GetExistingFields_None(frontmatter) == {}

\* getExistingFields(frontmatter): the words w of lines matching /^(\w+):/
GetExistingFields(frontmatter) ==
    LET lines == SplitLines(frontmatter)
    IN  { LeadingWord(lines[i]) : i \in
            { j \in 1..Len(lines) :
                /\ LeadingWord(lines[j]) # <<>>
                /\ StartsWith(From(lines[j], Len(LeadingWord(lines[j]))), <<":">>) } }

CreateCompletion(label, detail, insertText, kind) ==
    [label |-> label, detail |-> detail, insertText |-> insertText,
     kind |-> kind, snippet |-> FALSE]

CreateSnippetCompletion(label, detail, snippet, kind) ==
    [label |-> label, detail |-> detail, insertText |-> snippet,
     kind |-> kind, snippet |-> TRUE]

StartSnippet ==
    "---\nmodel: ${1|anthropic:claude-sonnet-4-0,anthropic:claude-opus-4-1,openai:gpt-5|}\n---\n\n$0"

\* provideCompletionItems(document, position) inside the frontmatter
FrontmatterCompletions(position, linePrefix, frontmatterContent) ==
    LET inMcpServers == IsInMcpServersBlock(position, frontmatterContent)
        inSubagents == IsInSubagentsBlock(position, frontmatterContent)
        inTools == IsInToolsBlock(position, frontmatterContent)
        indent == LeadingSpace(linePrefix)
    IN  IF MatchesKeyOnly(linePrefix, <<"m", "o", "d", "e", "l", ":">>)
        THEN [i \in 1..Len(Tables.MODELS) |->
                CreateCompletion(Tables.MODELS[i].label, Tables.MODELS[i].detail, Tables.MODELS[i].label, "Value")]
        ELSE IF MatchesCommand(linePrefix)
        THEN [i \in 1..Len(Tables.MCP_COMMANDS) |->
                CreateCompletion(Tables.MCP_COMMANDS[i].label, Tables.MCP_COMMANDS[i].detail,
                                 <<"\"", Tables.MCP_COMMANDS[i].label, "\"">>, "Value")]
        ELSE IF inMcpServers /\ indent >= 4 /\ IsBlank(linePrefix)
        THEN [i \in 1..Len(Tables.MCP_SERVER_FIELDS) |->
                CreateCompletion(Tables.MCP_SERVER_FIELDS[i].label, Tables.MCP_SERVER_FIELDS[i].detail,
                                 Tables.MCP_SERVER_FIELDS[i].insertText, "Property")]
        ELSE IF inSubagents /\ indent >= 2 /\ MatchesKeyOnly(linePrefix, <<"-">>)
        THEN <<CreateCompletion("path", "Path to subagent file", "path: ./", "Property")>>
        ELSE IF inSubagents /\ indent >= 2 /\ MatchesKeyOnly(linePrefix, <<"p", "a", "t", "h", ":">>)
        THEN GetAgentUseFiles(scanDoc).items
        ELSE IF inSubagents /\ indent >= 2 /\ IsBlank(linePrefix)
        THEN <<CreateCompletion("name", "Reference name for subagent", "name: ", "Property")>>
        ELSE IF inTools /\ indent >= 2 /\ MatchesKeyOnly(linePrefix, <<"-">>)
        THEN <<>>
        ELSE IF indent = 0 /\ IsBlank(linePrefix)
        THEN LET existingFields == GetExistingFields(frontmatterContent)
             IN  SelectSeq([i \in 1..Len(Tables.FRONTMATTER_FIELDS) |->
                               CreateCompletion(Tables.FRONTMATTER_FIELDS[i].label,
                                                Tables.FRONTMATTER_FIELDS[i].detail,
                                                Tables.FRONTMATTER_FIELDS[i].insertText,
                                                "Property")],
                           LAMBDA item : item.label \notin existingFields)
        ELSE <<>>

\* provideCompletionItems(document, position)
ProvideCompletionItems(lines, position) ==
    LET text == JoinLines(lines)
        lineText == lines[position.line + 1]
        linePrefix == SubSeq(lineText, 1, position.character)
        frontmatterMatch == FrontmatterMatch(text)
        cursorOffset == OffsetAt(lines, position)
    IN  IF ~frontmatterMatch.matched
        THEN IF position.line = 0 /\ linePrefix = <<>>
             THEN <<CreateSnippetCompletion("---", "Start frontmatter", StartSnippet, "Snippet")>>
             ELSE <<>>
        ELSE IF cursorOffset < 4 \/ cursorOffset > frontmatterMatch.length
        THEN <<>>
        ELSE FrontmatterCompletions(position, linePrefix, frontmatterMatch.content)

\* '---' and the keys that open a block
DashLine == <<"-", "-", "-">>
SubagentsKey == <<"s", "u", "b", "a", "g", "e", "n", "t", "s", ":">>
ToolsKey == <<"t", "o", "o", "l", "s", ":">>
McpServersKey == <<"m", "c", "p", "S", "e", "r", "v", "e", "r", "s", ":">>

\* lines a document may consist of
DocLines ==
    { <<"-", "-", "-">>, <<"m", "c", "p", "S", "e", "r", "v", "e", "r", "s", ":">>, <<"m", "c", "p", "_", "s", "e", "r", "v", "e", "r", "s", ":">>, <<"s", "u", "b", "a", "g", "e", "n", "t", "s", ":">>, <<"t", "o", "o", "l", "s", ":">>,
      <<" ", " ">>, <<" ", " ", " ", " ">>, <<"m", "o", "d", "e", "l", ":", " ">> }

Positions(lines) ==
    UNION { { [line |-> l, character |-> c] : c \in 0..Len(lines[l + 1]) } :
              l \in 0..(Len(lines) - 1) }

\* the workspace of a completion request: one agent file next to the document
InitCompl ==
    /\ InitRun
    /\ fsys = [entries |-> {File(<<NameAgent>>)}, unreadable |-> {}]
    /\ scanDoc = [hasFolder |-> TRUE, dir |-> <<>>]
    /\ scanResult = [done |-> FALSE]
    /\ complDoc \in UNION { [1..n -> DocLines] : n \in 1..MaxDocLines }
    /\ complPos \in Positions(complDoc)
    /\ complResult = [done |-> FALSE]
    /\ hoverResult = [done |-> FALSE]
    /\ blockResult = [done |-> FALSE]
    /\ schema = Loaded("generated")
    /\ host = Activated
    /\ inlineResult = [done |-> FALSE]
    /\ sync = [ran |-> FALSE]

\* a completion request that removes the existing fields from the table itself
CompletionRequest_InPlace ==
    /\ ~complResult.done
    /\ complResult' = [done |-> TRUE, items |-> ProvideCompletionItems(complDoc, complPos)]
    /\ LET frontmatterMatch == FrontmatterMatch(JoinLines(complDoc))
           existingFields == IF frontmatterMatch.matched
                             THEN GetExistingFields(frontmatterMatch.content)
                             ELSE {}
       IN  schema' = [source |-> schema.source, changed |-> TRUE,
                      tables |-> [Tables EXCEPT !.FRONTMATTER_FIELDS =
                                    SelectSeq(@, LAMBDA f : f.label \notin existingFields)]]
    /\ UNCHANGED <<complDoc, complPos, hoverResult, blockResult, host, inlineResult,
                   scanVars, runVars, sync>>

CompletionRequest ==
    /\ ~complResult.done
    /\ complResult' = [done |-> TRUE, items |-> ProvideCompletionItems(complDoc, complPos)]
    /\ UNCHANGED <<complDoc, complPos, hoverResult, blockResult, schema, host, inlineResult,
                   scanVars, runVars, sync>>

NextCompl == CompletionRequest

SpecCompl == InitCompl /\ [][NextCompl]_vars

\* the cursor is within the frontmatter, as provideCompletionItems tests it
CursorInFrontmatter ==
    /\ FrontmatterMatch(JoinLines(complDoc)).matched
    /\ OffsetAt(complDoc, complPos) >= 4
    /\ OffsetAt(complDoc, complPos) <= FrontmatterMatch(JoinLines(complDoc)).length

\* the cursor's line lies under one of the keys: the last line at or above it
\* that starts in column 0 starts with one of them
UnderTopKey(keys) ==
    \E k \in 2..(complPos.line + 1) :
        /\ \E key \in keys : StartsWith(complDoc[k], key)
        /\ \A j \in (k + 1)..(complPos.line + 1) :
              complDoc[j] = <<>> \/ complDoc[j][1] = " "

\* C10: a completion request with the cursor inside the frontmatter's MCP
\* servers block, on a line whose prefix is exactly two spaces, returns one
\* snippet completion per entry of COMMON_MCP_SERVERS.
C10_McpServerTemplatesOffered ==
    (/\ complResult.done
     /\ CursorInFrontmatter
     /\ UnderTopKey({<<"m", "c", "p", "_", "s", "e", "r", "v", "e", "r", "s", ":">>,
                     <<"m", "c", "p", "S", "e", "r", "v", "e", "r", "s", ":">>})
     /\ SubSeq(complDoc[complPos.line + 1], 1, complPos.character) = <<" ", " ">>)
        =>
            /\ Len(complResult.items) = Len(COMMON_MCP_SERVERS)
            /\ \A i \in 1..Len(COMMON_MCP_SERVERS) :
                  /\ complResult.items[i].label = COMMON_MCP_SERVERS[i].name
                  /\ complResult.items[i].detail = COMMON_MCP_SERVERS[i].detail
                  /\ complResult.items[i].insertText = COMMON_MCP_SERVERS[i].snippet
                  /\ complResult.items[i].snippet

\* ------------------------------------------------------------------------
\* Hover provider
\* ------------------------------------------------------------------------
\* the character '`'
BT == "\\x60"

\* the characters that end a word, besides white space, when the language
\* declares no word pattern of its own
IsWordPart(c) ==
    /\ c \notin {BT, "~", "!", "@", "#", "$", "%", "^", "&", "*", "(", ")", "-", "=", "+",
                 "[", "{", "]", "}", "\\", "|", ";", ":", "'", "\"", ",", ".", "<", ">",
                 "/", "?"}
    /\ ~IsSpace(c)

\* s.includes(sub)
Includes(s, sub) ==
    \E i \in 0..(Len(s) - Len(sub)) : SubSeq(s, i + 1, i + Len(sub)) = sub

\* document.getWordRangeAtPosition(position): the first word of the line that
\* starts at or before the cursor's column and ends at or after it
WordRangeAt(lineText, character) ==
    LET ranges == { r \in (0..character) \X (character..Len(lineText)) :
                      /\ r[1] < r[2]
                      /\ \A i \in (r[1] + 1)..r[2] : IsWordPart(lineText[i])
                      /\ r[1] = 0 \/ ~IsWordPart(lineText[r[1]])
                      /\ r[2] = Len(lineText) \/ ~IsWordPart(lineText[r[2] + 1]) }
    IN  IF ranges = {} THEN [found |-> FALSE]
        ELSE LET r == CHOOSE x \in ranges : \A y \in ranges : x[1] <= y[1]
             IN  [found |-> TRUE, start |-> r[1], end |-> r[2]]

\* the field documentation of provideHover
fieldDocs ==
    << [key |-> <<"m", "o", "d", "e", "l">>,
        doc |-> <<"**model** - The LLM provider and model to use.\n\nFormat: ", BT,
                  "provider:model-name", BT, "\n\nExamples:\n- ", BT,
                  "anthropic:claude-sonnet-4-0", BT, "\n- ", BT, "openai:gpt-5", BT>>],
       [key |-> <<"t", "i", "m", "e", "o", "u", "t">>,
        doc |-> <<"**timeout** - Execution timeout in milliseconds.\n\nExample: ", BT,
                  "timeout: 2000", BT>>],
       [key |-> <<"m", "a", "x", "S", "t", "e", "p", "s">>,
        doc |-> <<"**maxSteps** - Maximum number of reasoning steps the agent can take.\n\nExample: ",
                  BT, "maxSteps: 200", BT>>],
       [key |-> <<"t", "o", "o", "l", "s">>,
        doc |-> <<"**tools** - List of custom tools to make available to the agent.\n\nExample:\n",
                  BT, BT, BT, "yaml\ntools:\n  - greet\n  - file-ops.write\n", BT, BT,
                  BT>>],
       [key |-> <<"m", "c", "p", "_", "s", "e", "r", "v", "e", "r", "s">>,
        doc |-> <<"**mcp_servers** - MCP (Model Context Protocol) server configurations.\n\nProvides tools and capabilities to the agent.">>],
       [key |-> <<"s", "u", "b", "a", "g", "e", "n", "t", "s">>,
        doc |-> <<"**subagents** - Sub-agent definitions for delegating tasks.\n\nExample:\n",
                  BT, BT, BT,
                  "yaml\nsubagents:\n  - path: ./helper.agentuse\n    name: helper\n",
                  BT, BT, BT>>],
       [key |-> <<"c", "o", "m", "m", "a", "n", "d">>,
        doc |-> <<"**command** - Command to start the MCP server.\n\nOptions: ", BT,
                  "npx", BT, ", ", BT, "node", BT, ", ", BT, "uvx", BT, ", ", BT, "uv",
                  BT>>],
       [key |-> <<"a", "r", "g", "s">>,
        doc |-> <<"**args** - Arguments to pass to the MCP server command.">>],
       [key |-> <<"r", "e", "q", "u", "i", "r", "e", "d", "E", "n", "v", "V", "a", "r", "s">>,
        doc |-> <<"**requiredEnvVars** - Environment variables that must be set.">>],
       [key |-> <<"a", "l", "l", "o", "w", "e", "d", "E", "n", "v", "V", "a", "r", "s">>,
        doc |-> <<"**allowedEnvVars** - Environment variables that can optionally be used.">>],
       [key |-> <<"u", "r", "l">>,
        doc |-> <<"**url** - URL for remote MCP server proxy.">>],
       [key |-> <<"a", "u", "t", "h">>,
        doc |-> <<"**auth** - Authentication configuration for remote MCP servers.">>] >>

Hover(contents) == [kind |-> "hover", contents |-> contents]

\* provideHover(document, position)
ProvideHover(lines, position) ==
    LET lineText == lines[position.line + 1]
        wordRange == WordRangeAt(lineText, position.character)
        word == SubSeq(lineText, wordRange.start + 1, wordRange.end)
        docs == { i \in 1..Len(fieldDocs) : fieldDocs[i].key = word }
        models == { i \in 1..Len(Tables.MODELS) :
                      Tables.MODELS[i].label = word \/ Includes(lineText, Tables.MODELS[i].label) }
        servers == { i \in 1..Len(Tables.COMMON_MCP_SERVERS) : Tables.COMMON_MCP_SERVERS[i].name = word }
    IN  IF ~wordRange.found THEN [kind |-> "null"]
        ELSE IF docs # {} /\ Includes(lineText, word \o <<":">>)
        THEN Hover(fieldDocs[CHOOSE i \in docs : TRUE].doc)
        ELSE IF Includes(lineText, <<"m", "o", "d", "e", "l", ":">>) /\ models # {}
        THEN LET modelInfo == Tables.MODELS[CHOOSE i \in models : \A j \in models : i <= j]
             IN  Hover(<<"**">> \o modelInfo.label \o <<"**\n\n", modelInfo.detail>>)
        ELSE IF servers # {}
        THEN LET server == Tables.COMMON_MCP_SERVERS[CHOOSE i \in servers : TRUE]
             IN  Hover(<<"**">> \o word \o <<"** - ", server.detail, "\n\n", BT, BT, BT,
                                            "yaml\n", server.snippet, "\n", BT, BT, BT>>)
        ELSE [kind |-> "null"]

\* the labels of a table
LabelsOf(table) == { table[i].label : i \in 1..Len(table) }

\* the field labels that completion offers: top-level frontmatter fields and
\* MCP server fields, of the inline tables and of a regenerated schema
OfferedFieldLabels ==
    LabelsOf(FRONTMATTER_FIELDS) \cup LabelsOf(ParseFrontmatterFields)
        \cup LabelsOf(MCP_SERVER_FIELDS) \cup LabelsOf(MCP_SERVER_FIELDS_ALL)

\* documents with a frontmatter, for requests to both providers
FrontmatterDocuments ==
    { <<DashLine, <<"m", "o", "d", "e", "l", ":", " ">>, <<>>>>,
      <<DashLine, <<"m", "c", "p", "S", "e", "r", "v", "e", "r", "s", ":">>, <<" ", " ", " ", " ">>>>,
      <<DashLine, <<" ", " ", " ", " ", "c", "o", "m", "m", "a", "n", "d", ":", " ">>>> }

\* documents of a hover request: one line with an offered field as a
\* top-level key or as a nested key, the model lines, a server name, plain
\* text; and the documents with a frontmatter
HoverDocuments ==
    { <<l>> : l \in
        { l \o <<":", " ">> : l \in OfferedFieldLabels }
            \cup { <<" ", " ", " ", " ">> \o l \o <<":">> : l \in OfferedFieldLabels }
            \cup { <<"m", "o", "d", "e", "l", ":", " ">> \o MODELS[i].label :
                     i \in 1..Len(MODELS) }
            \cup { <<"m", "o", "d", "e", "l", ":", " ", "x", "-", "1">>,
                   <<" ", " ", "g", "i", "t", "h", "u", "b", ":">>,
                   <<"#", " ", "e", "n", "v">> } }
        \cup FrontmatterDocuments

InitHover ==
    /\ InitRun
    /\ ScanIdle
    /\ complDoc \in HoverDocuments
    /\ complPos \in Positions(complDoc)
    /\ complResult = [done |-> FALSE]
    /\ hoverResult = [done |-> FALSE]
    /\ blockResult = [done |-> FALSE]
    /\ schema \in {Loaded("inline"), Loaded("generated")}
    /\ host = Activated
    /\ inlineResult = [done |-> FALSE]
    /\ sync = [ran |-> FALSE]

HoverRequest ==
    /\ ~hoverResult.done
    /\ hoverResult' = [done |-> TRUE, hover |-> ProvideHover(complDoc, complPos)]
    /\ UNCHANGED <<complDoc, complPos, complResult, blockResult, schema, host, inlineResult,
                   scanVars, runVars, sync>>

\* the editor asks both providers about the same document
NextHover == HoverRequest \/ CompletionRequest

SpecHover == InitHover /\ [][NextHover]_vars

\* C11: hovering over the label of a field that completion offers (a
\* top-level frontmatter field or an MCP server field), on a line containing
\* '<label>:', returns a hover, and the hover shows the documentation of that
\* field.
C11_HoverDocsForEveryField ==
    LET lineText == complDoc[complPos.line + 1]
        wordRange == WordRangeAt(lineText, complPos.character)
        word == IF wordRange.found THEN SubSeq(lineText, wordRange.start + 1, wordRange.end)
                ELSE <<>>
    IN  (/\ hoverResult.done
         /\ word \in OfferedFieldLabels
         /\ Includes(lineText, word \o <<":">>))
            =>
                /\ hoverResult.hover.kind = "hover"
                /\ \E i \in 1..Len(fieldDocs) :
                      /\ fieldDocs[i].key = word
                      /\ hoverResult.hover.contents = fieldDocs[i].doc

\* C22: for every entry m of MODELS, hovering over a word of the value on a
\* line 'model: <m.label>' returns a hover that shows m's own label and
\* detail.
C22_HoverShowsNamedModel ==
    \A i \in 1..Len(Tables.MODELS) :
        (/\ hoverResult.done
         /\ complDoc = << <<"m", "o", "d", "e", "l", ":", " ">> \o Tables.MODELS[i].label >>
         /\ complPos.character >= 7)
            =>
                hoverResult.hover =
                    Hover(<<"**">> \o Tables.MODELS[i].label
                              \o <<"**\n\n", Tables.MODELS[i].detail>>)

\* ------------------------------------------------------------------------
\* Subagent discovery: completion requests on the lines of a subagents block
\* ------------------------------------------------------------------------
\* '    path: '
PathLine == <<" ", " ", " ", " ", "p", "a", "t", "h", ":", " ">>

\* documents whose third line asks for a path, as '    path: ' under
\* 'subagents:' or 'tools:' and as '  - path: ' under 'subagents:'
SubDocuments ==
    { <<DashLine, SubagentsKey, PathLine>>,
      <<DashLine, ToolsKey, PathLine>>,
      <<DashLine, SubagentsKey, <<" ", " ", "-", " ", "p", "a", "t", "h", ":", " ">>>> }

InitSub ==
    /\ InitRun
    /\ \E es \in { x \in FileSystems : File(<<AgentUseExt>>) \notin x } :
          /\ fsys \in {[entries |-> es, unreadable |-> u] :
                         u \in {{}, {<<NameSub>>} \cap DirsOf(es)}}
          /\ scanDoc \in {[hasFolder |-> TRUE, dir |-> d] :
                            d \in DirsOf(es) \cap {<<>>, <<NameSub>>}}
    /\ scanResult = [done |-> FALSE]
    /\ complDoc \in SubDocuments
    /\ complPos \in { p \in Positions(complDoc) : p.line = 2 }
    /\ complResult = [done |-> FALSE]
    /\ hoverResult = [done |-> FALSE]
    /\ blockResult = [done |-> FALSE]
    /\ schema = Loaded("generated")
    /\ host = Activated
    /\ inlineResult = [done |-> FALSE]
    /\ sync = [ran |-> FALSE]

NextSub == CompletionRequest

SpecSub == InitSub /\ [][NextSub]_vars

\* a completion request for a subagent path: the cursor is in the subagents
\* block of the frontmatter, after 'path:' and white space only
PathRequested ==
    /\ complResult.done
    /\ scanDoc.hasFolder
    /\ CursorInFrontmatter
    /\ UnderTopKey({SubagentsKey})
    /\ MatchesKeyOnly(SubSeq(complDoc[complPos.line + 1], 1, complPos.character),
                      <<"p", "a", "t", "h", ":">>)

ItemLabels == { complResult.items[i].label : i \in 1..Len(complResult.items) }

\* C12 as stated: on a 'path:' prefix in the subagents block the completion
\* list has one item for every file of the workspace folder whose name ends
\* in '.agentuse', labelled './' and the path relative to the document's
\* directory.
C12_EveryAgentUseFileOffered ==
    PathRequested =>
        LET all == { e.path : e \in { x \in fsys.entries :
                                        ~x.isDir /\ EndsWith(EntryName(x), AgentUseExt) } }
        IN  /\ ItemLabels = { <<".", "/">> \o PathRelative(scanDoc.dir, f) : f \in all }
            /\ Len(complResult.items) = Cardinality(all)

\* C12 amended: on a 'path:' prefix in the subagents block the completion
\* list has one item for every '.agentuse' file that the bounded scan
\* reaches (at most two directories below the workspace folder, no name on
\* the way starting with '.' or equal to 'node_modules', every directory on
\* the way readable), labelled './' and the path relative to the document's
\* directory, and shown with the file's name as detail.
C12_ScannedFilesOffered ==
    PathRequested =>
        /\ ItemLabels = { <<".", "/">> \o PathRelative(scanDoc.dir, f) : f \in ScanVisible }
        /\ Len(complResult.items) = Cardinality(ScanVisible)
        /\ \A i \in 1..Len(complResult.items) :
              /\ complResult.items[i].kind = "File"
              /\ \E f \in ScanVisible :
                    /\ complResult.items[i].label = <<".", "/">> \o PathRelative(scanDoc.dir, f)
                    /\ complResult.items[i].detail = f[Len(f)]

\* a path request in a document one directory below the workspace folder
\* found the file next to it and the file above it, and passed over the files
\* three directories deep and inside node_modules
C12_Witness ==
    /\ PathRequested
    /\ scanDoc.dir = <<NameSub>>
    /\ File(<<NameSub, NameSub, NameSub, NameAgent>>) \in fsys.entries
    /\ File(<<NameNodeModules, NameAgent>>) \in fsys.entries
    /\ ItemLabels = { <<".", "/">> \o NameAgent, <<".", "/", ".", ".", "/">> \o NameAgent }

\* no two entries of the table carry the same label
UniqueLabels(table) ==
    \A i \in 1..Len(table) : \A j \in 1..Len(table) :
        table[i].label = table[j].label => i = j

\* C13: the entries of MODELS, of FRONTMATTER_FIELDS, of MCP_COMMANDS and of
\* the MCP server field list (the inline one and the combined one of a
\* regenerated schema) have pairwise different labels, and no step of a
\* provider changes the loaded tables.
C13_TablesUniqueAndReadOnly ==
    [][/\ Tables' = Tables
       /\ Tables' \in {InlineSchema, GeneratedSchema}
       /\ UniqueLabels(Tables'.MODELS)
       /\ UniqueLabels(Tables'.FRONTMATTER_FIELDS)
       /\ UniqueLabels(Tables'.MCP_COMMANDS)
       /\ UniqueLabels(Tables'.MCP_SERVER_FIELDS)
       /\ UniqueLabels(MCP_SERVER_FIELDS_ALL)
       /\ Len(MCP_SERVER_FIELDS_ALL)
            = Len(ParseMCPServerFields.stdio) + Len(ParseMCPServerFields.http)
                + Len(ParseMCPServerFields.shared)]_vars

\* both providers answered for a frontmatter in which 'model' exists: the
\* completion filtered that field out of its answer, the table still has it
C13_Witness ==
    /\ complResult.done
    /\ hoverResult.done
    /\ complDoc \in FrontmatterDocuments
    /\ Len(complResult.items) = Len(Tables.FRONTMATTER_FIELDS) - 1
    /\ \E i \in 1..Len(Tables.FRONTMATTER_FIELDS) :
          Tables.FRONTMATTER_FIELDS[i].label = <<"m", "o", "d", "e", "l">>

\* 'AgentUse:'
AgentUsePrefix == <<"A", "g", "e", "n", "t", "U", "s", "e", ":">>

\* C14: a close-terminal command disposes the active terminal exactly if its
\* name starts with 'AgentUse:' and leaves every other terminal as it is; the
\* terminal name that the run command builds starts with 'AgentUse:' for
\* every file path, so every terminal of a run does.
C14_CloseTerminalClosesAgentUseOnly ==
    [][/\ \A a \in ActiveTerminals :
            CloseTerminalCommand(a) =>
                /\ a.kind = "pty" =>
                      /\ ptys'[a.t].status = "disposed"
                            <=> StartsWith(ptys[a.t].name, AgentUsePrefix)
                      /\ foreign' = foreign
                /\ a.kind = "foreign" =>
                      /\ foreign' = "disposed" <=> StartsWith(ForeignName, AgentUsePrefix)
                      /\ ptys' = ptys
                /\ a.kind = "none" => ptys' = ptys /\ foreign' = foreign
                /\ \A t \in 1..Len(ptys) :
                      (a.kind # "pty" \/ t # a.t) => ptys'[t] = ptys[t]
       /\ \A t \in 1..Len(ptys') : StartsWith(ptys'[t].name, AgentUsePrefix)
       /\ \A path \in DocPaths \cup {<<>>, <<"/">>, <<"/", "w", "/">>, AgentUseExt} :
            StartsWith(TerminalName(path), AgentUsePrefix)]_vars

\* the command disposed the terminal of the second run while the terminal of
\* the first run and the foreign terminal stayed open
C14_Witness ==
    /\ Len(ptys) = 2
    /\ ptys[2].disposedBy = "command"
    /\ ptys[2].status = "disposed"
    /\ ptys[1].status # "disposed"
    /\ foreign = "open"

\* ------------------------------------------------------------------------
\* The three block tests, called by themselves
\* ------------------------------------------------------------------------
\* documents that open a frontmatter of up to MaxDocLines lines: block keys,
\* a key that opens no block, blank and nested lines
BlockDocuments ==
    { <<DashLine>> \o d : d \in
        UNION { [1..n -> (DocLines \ {DashLine, <<" ", " ", " ", " ">>}) \cup {<<>>, PathLine}] :
                  n \in 1..MaxDocLines } }

\* the frontmatter of the document of the request
FrontmatterOf(lines) == FrontmatterMatch(JoinLines(lines)).content

\* cursors on every line of the document, from the '---' line to the last line
InitBlock ==
    /\ InitRun
    /\ ScanIdle
    /\ complDoc \in BlockDocuments
    /\ complPos \in { p \in Positions(complDoc) : p.character = 0 }
    /\ complResult = [done |-> FALSE]
    /\ hoverResult = [done |-> FALSE]
    /\ blockResult = [done |-> FALSE]
    /\ schema = Loaded("generated")
    /\ host = Activated
    /\ inlineResult = [done |-> FALSE]
    /\ sync = [ran |-> FALSE]

ClassifyRequest ==
    /\ ~blockResult.done
    /\ LET frontmatterContent == FrontmatterOf(complDoc)
       IN  blockResult' =
              [done |-> TRUE,
               inMcpServers |-> IsInMcpServersBlock(complPos, frontmatterContent),
               inSubagents |-> IsInSubagentsBlock(complPos, frontmatterContent),
               inTools |-> IsInToolsBlock(complPos, frontmatterContent)]
    /\ UNCHANGED <<complDoc, complPos, complResult, hoverResult, schema, host, inlineResult,
                   scanVars, runVars, sync>>

NextBlock == ClassifyRequest

SpecBlock == InitBlock /\ [][NextBlock]_vars

\* of the lines at or before line index (from 0) that are not blank and do
\* not start with white space, the last begins with one of the keys
UnderKey(lines, index, keys) ==
    LET top == { k \in 1..(index + 1) : ~IsBlank(lines[k]) /\ ~IsSpace(lines[k][1]) }
    IN  /\ top # {}
        /\ LET k == CHOOSE x \in top : \A y \in top : y <= x
           IN  \E key \in keys : StartsWith(lines[k], key)

\* C15: for a cursor line within the frontmatter lines, each block test
\* returns true exactly if the last line at or before the cursor's line that
\* is not blank and has no leading white space begins with the key of the
\* block; for a cursor line before or after the frontmatter lines each test
\* returns false.
C15_BlockOfLastTopLevelKey ==
    blockResult.done =>
        LET lines == SplitLines(FrontmatterOf(complDoc))
            index == complPos.line - 1
        IN  IF index < 0 \/ index >= Len(lines)
            THEN ~blockResult.inMcpServers /\ ~blockResult.inSubagents /\ ~blockResult.inTools
            ELSE /\ blockResult.inMcpServers
                      <=> UnderKey(lines, index,
                                   {<<"m", "c", "p", "_", "s", "e", "r", "v", "e", "r", "s", ":">>,
                                    <<"m", "c", "p", "S", "e", "r", "v", "e", "r", "s", ":">>})
                 /\ blockResult.inSubagents <=> UnderKey(lines, index, {SubagentsKey})
                 /\ blockResult.inTools <=> UnderKey(lines, index, {ToolsKey})

\* the cursor is on a nested line, two lines below 'tools:' with a blank line
\* between, and the tests put it in the tools block
C15_Witness ==
    /\ blockResult.done
    /\ Len(complDoc) = 4
    /\ complDoc[2] = ToolsKey
    /\ complDoc[3] = <<>>
    /\ complDoc[4] = PathLine
    /\ complPos.line = 3
    /\ blockResult.inTools
    /\ ~blockResult.inSubagents
    /\ ~blockResult.inMcpServers

\* C26: for every frontmatter and every cursor line, at most one of the three
\* block tests returns true.
C26_BlocksMutuallyExclusive ==
    blockResult.done =>
        /\ ~(blockResult.inMcpServers /\ blockResult.inSubagents)
        /\ ~(blockResult.inMcpServers /\ blockResult.inTools)
        /\ ~(blockResult.inSubagents /\ blockResult.inTools)

\* the frontmatter opens the tools block and then the subagents block; the
\* cursor is on a nested line below both keys and only the subagents test
\* returned true
C26_Witness ==
    /\ blockResult.done
    /\ complDoc = <<DashLine, ToolsKey, SubagentsKey, PathLine>>
    /\ complPos.line = 3
    /\ blockResult.inSubagents
    /\ ~blockResult.inTools
    /\ ~blockResult.inMcpServers

\* what the 'close' handler of pseudoterminal t has written
CloseWrites(t) == SelectSeq(ptys[t].written, LAMBDA w : w.src = "close")

\* C16: once the 'close' event of its subprocess was handled, a
\* pseudoterminal has written the separator and 'Process exited with code
\* <code>' exactly once, and nothing of the kind before; no pseudoterminal
\* ever fires closeEmitter, and a terminal is disposed only by the user or by
\* the close-terminal command.
C16_TerminalStaysOpenAfterExit ==
    \A t \in 1..Len(ptys) :
        /\ ptys[t].closeFired = 0
        /\ ptys[t].status = "disposed" => ptys[t].disposedBy \in {"user", "command"}
        /\ LET p == ptys[t].process
           IN  IF p # 0 /\ procs[p].state = "closed"
               THEN CloseWrites(t) = <<W("close", FooterRule),
                                       W("close", ExitLine(CloseCode(procs[p].exit)))>>
               ELSE CloseWrites(t) = <<>>

\* the subprocess ended with exit code 0, the footer is written, and the
\* terminal is still open
C16_Witness ==
    \E t \in 1..Len(ptys) :
        /\ ptys[t].status = "open"
        /\ ptys[t].process # 0
        /\ procs[ptys[t].process].state = "closed"
        /\ procs[ptys[t].process].exit = [kind |-> "code", code |-> 0]
        /\ Len(CloseWrites(t)) = 2

\* parts.join(' ')
RECURSIVE JoinBlank(_)
JoinBlank(parts) ==
    IF parts = <<>> THEN <<>>
    ELSE IF Len(parts) = 1 THEN Head(parts)
    ELSE Head(parts) \o <<" ">> \o JoinBlank(Tail(parts))

\* the words into which the shell splits a command line without quotes
RECURSIVE ShellWords(_)
ShellWords(line) ==
    IF line = <<>> THEN <<>>
    ELSE IF Head(line) = " " THEN ShellWords(Tail(line))
    ELSE LET blanks == { i \in 1..Len(line) : line[i] = " " }
             end == IF blanks = {} THEN Len(line) + 1
                    ELSE CHOOSE i \in blanks : \A j \in blanks : i <= j
         IN  <<SubSeq(line, 1, end - 1)>> \o ShellWords(SubSeq(line, end, Len(line)))

\* the arguments that the started tool receives: with the option shell: true,
\* spawn joins the command and its arguments with blanks and runs the result
\* as one command line of /bin/sh
ToolArgv(p) ==
    IF procs[p].shell
    THEN Tail(ShellWords(JoinBlank(<<procs[p].command>> \o procs[p].args)))
    ELSE procs[p].args

\* C17: the tool of every subprocess that started receives exactly two
\* arguments, 'run' and the unaltered file path of its pseudoterminal, which
\* is the path that the header line shows between quotes.
C17_FilePathIsOneArgument ==
    \A p \in 1..Len(procs) :
        procs[p].state # "failed" /\ procs[p].exit # [kind |-> "code", code |-> -2] =>
            /\ ToolArgv(p) = <<<<"run">>, ptys[procs[p].owner].filePath>>
            /\ ptys[procs[p].owner].written[1]
                  = W("open", <<"Running: agentuse run \"">> \o ToolArgv(p)[2] \o <<"\"", CR, LF>>)

\* the inputs of pseudoterminal t that are not Ctrl+C and arrived when it had
\* a subprocess, in the order of their arrival; st is the set of states of
\* the subprocess to look at
ForwardedInputs(ps, t, st) ==
    LET sel == SelectSeq(ps[t].inputs, LAMBDA i : i.data # <<ETX>> /\ i.proc \in st)
    IN  [k \in 1..Len(sel) |-> sel[k].data]

ErrorHandled(t) ==
    /\ ptys[t].process # 0
    /\ procs[ptys[t].process].exit = [kind |-> "code", code |-> -2]
    /\ procs[ptys[t].process].state \in {"errored", "closed"}

C20_CompletionsConfinedToFrontmatter ==
    complResult.done =>
        LET offset == OffsetAt(complDoc, complPos)
            closers == { j \in 3..Len(complDoc) : StartsWith(complDoc[j], DashLine) }
            frontmatterEnd ==
                IF closers = {} THEN Len(JoinLines(complDoc))
                ELSE LET j == CHOOSE x \in closers : \A y \in closers : x <= y
                     IN  OffsetAt(complDoc, [line |-> j - 1, character |-> 3])
        IN  IF Len(complDoc) >= 2 /\ complDoc[1] = DashLine
            THEN (offset < 4 \/ offset > frontmatterEnd)
                    => complResult.items = <<>>
            ELSE IF complPos.line = 0 /\ complPos.character = 0
            THEN /\ Len(complResult.items) = 1
                 /\ complResult.items[1].label = "---"
                 /\ complResult.items[1].snippet
                 /\ complResult.items[1].insertText = StartSnippet
            ELSE complResult.items = <<>>

\* the cursor is behind 'model: ' on the line after the closing '---', where
\* a line of the frontmatter would get the model list, and the answer is empty
C20_Witness ==
    /\ complResult.done
    /\ complDoc = <<DashLine, ToolsKey, DashLine, <<"m", "o", "d", "e", "l", ":", " ">>>>
    /\ complPos = [line |-> 3, character |-> 7]
    /\ complResult.items = <<>>

\* C24: a completion request inside the frontmatter with an empty line
\* prefix returns exactly the entries of FRONTMATTER_FIELDS, in table order,
\* whose label does not start a line of the frontmatter as '<label>:'; a
\* request whose prefix begins with white space returns no top-level field.
C24_TopLevelFieldsWithoutDuplicates ==
    (complResult.done /\ CursorInFrontmatter) =>
        LET closers == { j \in 3..Len(complDoc) : StartsWith(complDoc[j], DashLine) }
            last == IF closers = {} THEN Len(complDoc)
                    ELSE (CHOOSE x \in closers : \A y \in closers : x <= y) - 1
            fresh == SelectSeq(Tables.FRONTMATTER_FIELDS,
                               LAMBDA f : ~\E k \in 2..last :
                                             StartsWith(complDoc[k], f.label \o <<":">>))
            linePrefix == SubSeq(complDoc[complPos.line + 1], 1, complPos.character)
        IN  /\ complPos.character = 0 =>
                  /\ Len(complResult.items) = Len(fresh)
                  /\ \A i \in 1..Len(fresh) :
                        /\ complResult.items[i].label = fresh[i].label
                        /\ complResult.items[i].detail = fresh[i].detail
                        /\ complResult.items[i].insertText = fresh[i].insertText
                        /\ complResult.items[i].kind = "Property"
            /\ LeadingSpace(linePrefix) > 0 =>
                  \A i \in 1..Len(complResult.items) :
                      complResult.items[i].kind = "Property" =>
                          \A j \in 1..Len(Tables.FRONTMATTER_FIELDS) :
                              complResult.items[i].insertText
                                  # Tables.FRONTMATTER_FIELDS[j].insertText

\* the frontmatter has the lines 'tools:' and 'model: '; at the start of its
\* last line all fields but these two are offered
C24_Witness ==
    /\ complResult.done
    /\ complDoc = <<DashLine, ToolsKey, <<"m", "o", "d", "e", "l", ":", " ">>, <<" ", " ">>>>
    /\ complPos = [line |-> 3, character |-> 0]
    /\ Len(complResult.items) = Len(Tables.FRONTMATTER_FIELDS) - 2
    /\ complResult.items[1].label = <<"d", "e", "s", "c", "r", "i", "p", "t", "i", "o", "n">>

\* C25 as stated: findAgentUseFilesRecursive(root, 3) returns exactly the
\* files whose name ends in '.agentuse', that lie in the root or in a
\* directory at most two levels below it, and whose name and every directory
\* on the way from the root neither starts with '.' nor is named
\* 'node_modules'; it reads no directory three or more levels below the root.
C25_ScanBoundedAndFiltered ==
    (scanResult.done /\ scanResult.result.scan.called) =>
        LET scan == scanResult.result.scan
            expected ==
                { e.path : e \in
                    { x \in fsys.entries :
                        /\ ~x.isDir
                        /\ EndsWith(EntryName(x), AgentUseExt)
                        /\ Len(x.path) <= ScanMaxDepth
                        /\ \A k \in 1..Len(x.path) :
                              ~(x.path[k][1] = "." \/ x.path[k] = NameNodeModules) } }
        IN  /\ ~scan.threw
            /\ { scan.files[i] : i \in 1..Len(scan.files) } = expected
            /\ Len(scan.files) = Cardinality(expected)
            /\ \A i \in 1..Len(scan.reads) : Len(scan.reads[i]) < ScanMaxDepth

\* C25 amended: findAgentUseFilesRecursive(root, 3) returns, each once,
\* exactly the files whose name ends in '.agentuse', that lie in the root or
\* in a directory at most two levels below it, whose name and every
\* directory on the way from the root neither starts with '.' nor is named
\* 'node_modules', and whose directories on the way, the root included, can
\* all be read; it reads the root and the directories at most two levels
\* below it that it reaches in this way, each once, and no other directory.
C25_ScanBoundedFilteredReadable ==
    (scanResult.done /\ scanResult.result.scan.called) =>
        LET scan == scanResult.result.scan
            reached ==
                { d \in DirsOf(fsys.entries) :
                    /\ Len(d) < ScanMaxDepth
                    /\ \A k \in 1..Len(d) : ~(d[k][1] = "." \/ d[k] = NameNodeModules)
                    /\ \A k \in 0..(Len(d) - 1) : SubSeq(d, 1, k) \notin fsys.unreadable }
        IN  /\ ~scan.threw
            /\ { scan.files[i] : i \in 1..Len(scan.files) } = ScanVisible
            /\ Len(scan.files) = Cardinality(ScanVisible)
            /\ { scan.reads[i] : i \in 1..Len(scan.reads) } = reached
            /\ Len(scan.reads) = Cardinality(reached)

\* a tree with agent files in the root and one, two and three levels below
\* it and in node_modules, all readable: the scan returned the first three
\* files and did not read the directory three levels below the root
C25_Witness ==
    /\ scanResult.done
    /\ scanResult.result.scan.called
    /\ fsys.unreadable = {}
    /\ { File(<<NameAgent>>), File(<<NameSub, NameSub, NameAgent>>),
         File(<<NameSub, NameSub, NameSub, NameAgent>>),
         File(<<NameNodeModules, NameAgent>>) } \subseteq fsys.entries
    /\ Len(scanResult.result.scan.files) = 3
    /\ \A i \in 1..Len(scanResult.result.scan.reads) :
          scanResult.result.scan.reads[i] # <<NameSub, NameSub, NameSub>>

\* C27: once the 'close' event of its subprocess has been handled, a
\* handleInput call of a pseudoterminal, with Ctrl+C or with other data,
\* sends no signal to the subprocess, writes nothing to its stdin and writes
\* nothing to the terminal.
C27_InputAfterExitHasNoEffect ==
    [][\A t \in 1..Len(ptys) : \A data \in Inputs :
          (/\ HandleInput(t, data)
           /\ ptys[t].process # 0
           /\ procs[ptys[t].process].state = "closed")
              =>
                LET p == ptys[t].process
                IN  /\ ptys'[t].written = ptys[t].written
                    /\ procs'[p].signals = procs[p].signals
                    /\ procs'[p].killed = procs[p].killed
                    /\ procs'[p].stdin = procs[p].stdin]_vars

\* ------------------------------------------------------------------------
\* Activation and the inline completion provider
\* ------------------------------------------------------------------------
\* provideInlineCompletionItems(document, position, context); the closing
\* test isInBlockContext chooses between two branches that both return []
ProvideInlineCompletionItems(lines, position) ==
    LET linePrefix == SubSeq(lines[position.line + 1], 1, position.character)
        frontmatterMatch == FrontmatterMatch(JoinLines(lines))
        cursorOffset == OffsetAt(lines, position)
    IN  IF ~frontmatterMatch.matched THEN <<>>
        ELSE IF cursorOffset < 4 \/ cursorOffset > frontmatterMatch.length THEN <<>>
        ELSE LET flines == SplitLines(frontmatterMatch.content)
                 frontmatterLineIndex == position.line - 1
                 before == { k \in 1..frontmatterLineIndex : ~IsBlank(flines[k]) }
                 prevLine == flines[CHOOSE k \in before : \A j \in before : j <= k]
                 indent == linePrefix
                 item(completion) ==
                     <<[insertText |-> completion,
                        range |-> [start |-> position, end |-> position]]>>
             IN  IF frontmatterLineIndex < 0 \/ frontmatterLineIndex >= Len(flines)
                    \/ before = {}
                 THEN <<>>
                 ELSE IF /\ StartsWith(prevLine, ToolsKey)
                         /\ IsBlank(From(prevLine, Len(ToolsKey)))
                         /\ IsBlank(linePrefix)
                 THEN item(<<"filesystem:\n">> \o indent \o <<"  - path: ${root}/\n">>
                             \o indent \o <<"    permissions:\n">>
                             \o indent \o <<"      - read">>)
                 ELSE IF /\ StartsWith(prevLine, McpServersKey)
                         /\ IsBlank(From(prevLine, Len(McpServersKey)))
                         /\ IsBlank(linePrefix)
                 THEN item(<<"fetch:\n">> \o indent \o <<"  command: \"uvx\"\n">>
                             \o indent \o <<"  args:\n">>
                             \o indent \o <<"    - \"mcp-server-fetch\"">>)
                 ELSE <<>>

\* documents of an inline completion request: a block key and one line below
InlineDocuments ==
    { <<DashLine, key, line>> :
        key \in {ToolsKey, McpServersKey, SubagentsKey},
        line \in {<<>>, <<" ", " ">>, <<" ", " ", " ", " ">>,
                  <<"m", "o", "d", "e", "l", ":", " ">>} }

\* the editor has loaded the extension and not yet called activate()
InitInline ==
    /\ InitRun
    /\ ScanIdle
    /\ complDoc \in InlineDocuments
    /\ complPos \in Positions(complDoc)
    /\ complResult = [done |-> FALSE]
    /\ hoverResult = [done |-> FALSE]
    /\ blockResult = [done |-> FALSE]
    /\ schema = Loaded("generated")
    /\ host = [activated |-> FALSE, providers |-> {}, commands |-> {},
               subscriptions |-> <<>>]
    /\ inlineResult = [done |-> FALSE]
    /\ sync = [ran |-> FALSE]

\* activate(context)
Activate ==
    /\ ~host.activated
    /\ host' = Activated
    /\ UNCHANGED <<complDoc, complPos, complResult, hoverResult, blockResult, schema,
                   inlineResult, scanVars, runVars, sync>>

\* the editor asks for inline completions at the cursor: it calls the inline
\* completion providers that are registered for the document's language
InlineRequest ==
    /\ host.activated
    /\ ~inlineResult.done
    /\ inlineResult' =
          [done |-> TRUE,
           items |-> IF [kind |-> "inline", language |-> "agentuse"] \in host.providers
                     THEN ProvideInlineCompletionItems(complDoc, complPos)
                     ELSE <<>>]
    /\ UNCHANGED <<complDoc, complPos, complResult, hoverResult, blockResult, schema,
                   host, scanVars, runVars, sync>>

NextInline == Activate \/ InlineRequest

SpecInline == InitInline /\ [][NextInline]_vars

\* C21: once activate() has run, the inline completion provider is among the
\* providers registered for 'agentuse' documents and among the extension's
\* subscriptions, and an inline completion request on a white-space-only
\* line directly below 'tools:' or 'mcpServers:' inside the frontmatter is
\* answered with the provider's suggestion.
C21_InlineProviderInEffect ==
    host.activated =>
        /\ [kind |-> "inline", language |-> "agentuse"] \in host.providers
        /\ \E i \in 1..Len(host.subscriptions) :
              host.subscriptions[i] = "inlineCompletionProvider"
        /\ (/\ inlineResult.done
            /\ complDoc[2] \in {ToolsKey, McpServersKey}
            /\ complPos.line = 2
            /\ IsBlank(complDoc[3]))
              =>
                /\ Len(inlineResult.items) = 1
                /\ inlineResult.items = ProvideInlineCompletionItems(complDoc, complPos)

\* ------------------------------------------------------------------------
\* The schema generator: main() of sync-cli.ts
\* ------------------------------------------------------------------------
\* readFileSync of the three source files, then the four parsers: the error
\* that leaves main(), if any.  Only parseFrontmatterFields throws.
ReadAndParse_AnyParser(fs) ==
    IF "unreadable" \in {fs.models, fs.parser, fs.types} THEN "read error"
    ELSE "none"

ReadAndParse(fs) ==
    IF "unreadable" \in {fs.models, fs.parser, fs.types} THEN "read error"
    ELSE IF fs.parser = "noschema" THEN "Could not find AgentSchema in parser.ts"
    ELSE "none"

\* the files a run may find: the CLI root, models.ts (absent, a path that
\* cannot be read, without a model entry, with entries), parser.ts (absent,
\* not readable, without the AgentSchema definition, with it), types.ts, the
\* extension's src/generated and snippets directories
InitSync ==
    /\ InitRun
    /\ ScanIdle
    /\ complDoc = <<>>
    /\ complPos = [line |-> 0, character |-> 0]
    /\ complResult = [done |-> FALSE]
    /\ hoverResult = [done |-> FALSE]
    /\ blockResult = [done |-> FALSE]
    /\ schema = Loaded("generated")
    /\ host = Activated
    /\ inlineResult = [done |-> FALSE]
    /\ sync \in { [ran |-> FALSE, fs |-> fs] : fs \in
                    { f \in [cliRoot : BOOLEAN,
                             models : {"absent", "unreadable", "empty", "ok"},
                             parser : {"absent", "unreadable", "noschema", "ok"},
                             types : {"absent", "unreadable", "ok"},
                             generatedDir : BOOLEAN,
                             snippetsDir : BOOLEAN] :
                        f.cliRoot \/ (/\ f.models = "absent"
                                      /\ f.parser = "absent"
                                      /\ f.types = "absent") } }

\* main(), with the handler of main().catch: an error that is thrown ends
\* the process with status 1, as each failed check does
SyncMain ==
    /\ ~sync.ran
    /\ "fs" \in DOMAIN sync
    /\ LET fs == sync.fs
           refused == [ran |-> TRUE, fs |-> fs, exit |-> 1,
                       createdDir |-> FALSE, written |-> {}]
           hasModel == \E i \in 1..Len(ParseFrontmatterFields) :
                          ParseFrontmatterFields[i].label = <<"m", "o", "d", "e", "l">>
           hasCommand == \E i \in 1..Len(ParseMCPServerFields.stdio) :
                            ParseMCPServerFields.stdio[i].label
                                = <<"c", "o", "m", "m", "a", "n", "d">>
           hasUrl == \E i \in 1..Len(ParseMCPServerFields.http) :
                        ParseMCPServerFields.http[i].label = <<"u", "r", "l">>
       IN  sync' =
              IF ~fs.cliRoot THEN refused
              ELSE IF fs.models = "absent" THEN refused
              ELSE IF fs.parser = "absent" THEN refused
              ELSE IF fs.types = "absent" THEN refused
              ELSE IF ReadAndParse(fs) # "none" THEN refused
              ELSE IF ~fs.snippetsDir
              THEN [ran |-> TRUE, fs |-> fs, exit |-> 1,
                    createdDir |-> ~fs.generatedDir, written |-> {"schema.ts"}]
              ELSE [ran |-> TRUE, fs |-> fs,
                    exit |-> IF fs.models = "empty" \/ ~hasModel \/ ~hasCommand \/ ~hasUrl
                             THEN 1 ELSE 0,
                    createdDir |-> ~fs.generatedDir,
                    written |-> {"schema.ts", "agentuse.json"}]
    /\ UNCHANGED <<complVars, scanVars, runVars>>

NextSync == SyncMain

SpecSync == InitSync /\ [][NextSync]_vars

\* C23: when the CLI root directory or one of models.ts, parser.ts and
\* types.ts under it does not exist, or parser.ts does not contain the
\* AgentSchema definition, the script exits with status 1 and has neither
\* created the generated directory nor written schema.ts or the snippets
\* file.
C23_SyncRefusesMissingInputs ==
    (/\ sync.ran
     /\ \/ ~sync.fs.cliRoot
        \/ "absent" \in {sync.fs.models, sync.fs.parser, sync.fs.types}
        \/ sync.fs.parser = "noschema")
        =>
            /\ sync.exit = 1
            /\ ~sync.createdDir
            /\ sync.written = {}

\* all files exist and the generated directory does not, parser.ts lacks
\* the AgentSchema definition, and the script has exited with status 1
C23_Witness ==
    /\ sync.ran
    /\ sync.fs = [cliRoot |-> TRUE, models |-> "ok", parser |-> "noschema",
                  types |-> "ok", generatedDir |-> FALSE, snippetsDir |-> TRUE]
    /\ sync.exit = 1
    /\ ~sync.createdDir

====
